---- MODULE Spec2Model ----
(***************************************************************************)
(* Snow-cover pixel cache and reconciliation engine of                     *)
(* openskidata-processor (snow-cover/src): the file-based                  *)
(* PixelCacheManager, the VIIRSDataFetcher thread pool and                 *)
(* VIIRSSnowDataProcessor.process_tile.                                    *)
(*                                                                         *)
(* Dates are whole days counted from Jan 1 of EpochYear (day 0).  A weekly *)
(* cell is <<value, cloud_persistence>>; None stands for Python's None.    *)
(***************************************************************************)
EXTENDS Integers, Sequences, FiniteSets, TLC

\* ------------------------------------------------------------------------
\* constants.py, utils.py
\* ------------------------------------------------------------------------
ERROR_OLD_MISSING == 301
ERROR_RECENT_MISSING == 400
ERROR_OTHER == 401

None == -1
WEEKS_PER_YEAR == 53
old_missing_cutoff_days == 30

EpochYear == 2024

IsLeap(y) == (y % 4 = 0 /\ y % 100 # 0) \/ (y % 400 = 0)

DaysInYear(y) == IF IsLeap(y) THEN 366 ELSE 365

RECURSIVE Jan1(_)
Jan1(y) ==
    IF y = EpochYear THEN 0
    ELSE IF y > EpochYear THEN Jan1(y - 1) + DaysInYear(y - 1)
    ELSE Jan1(y + 1) - DaysInYear(y)

Dec31(y) == Jan1(y + 1) - 1

RECURSIVE YearFrom(_, _)
YearFrom(d, y) ==
    IF d < Jan1(y) THEN YearFrom(d, y - 1)
    ELSE IF d > Dec31(y) THEN YearFrom(d, y + 1)
    ELSE y

YearOf(d) == YearFrom(d, EpochYear)

Max(a, b) == IF a >= b THEN a ELSE b
Min(a, b) == IF a <= b THEN a ELSE b

\* Sensitivity variant of calculate_week_index: weeks are counted from 1.
calculate_week_index_FromOne(date, year) == (date - Jan1(year)) \div 7 + 1

calculate_week_index(date, year) == (date - Jan1(year)) \div 7

EmptyCell == <<None, 0>>

\* Sensitivity variant of create_empty_year_data: a year of 52 weeks.
create_empty_year_data_52(year) ==
    [year |-> year, data |-> [i \in 1..(WEEKS_PER_YEAR - 1) |-> EmptyCell]]

create_empty_year_data(year) ==
    [year |-> year, data |-> [i \in 1..WEEKS_PER_YEAR |-> EmptyCell]]

\* ------------------------------------------------------------------------
\* Bounds of the model
\* ------------------------------------------------------------------------
\* Day on which the processor is constructed (Jan 10 of EpochYear).
ConstructDay == 9
\* Largest thread-pool size the processor is constructed with.
MaxWorkers == 2
\* Most I/O errors (failed saves) in one behaviour.
MaxFaults == 1

Tile == "h18v04"
Pixels == {<<1500, 1000>>, <<1500, 1001>>}

\* Sensor readings <<value, cloud_persistence>> a tile file can hold.
Readings == {<<85, 1>>}

\* ------------------------------------------------------------------------
\* PixelCacheManager: one JSON file per pixel
\* ------------------------------------------------------------------------
AbsentFile == [st |-> "absent", text |-> <<>>]
CorruptFile == [st |-> "corrupt", text |-> <<>>]

\* Sensitivity variant of JsonScalar: None is written as the number 0.
JsonScalar_NullAsZero(v) == <<"number", IF v = None THEN 0 ELSE v>>

\* json.dump of None or an int, and json.load of null or a number.
JsonScalar(v) == IF v = None THEN <<"null">> ELSE <<"number", v>>

PyScalar(j) == IF j[1] = "null" THEN None ELSE j[2]

\* json.dump of the list of {'year': ..., 'data': [[value, cp], ...]}.
json_dump(json_data) ==
    <<>> \o [i \in 1..Len(json_data) |->
        [year |-> JsonScalar(json_data[i].year),
         data |-> <<>> \o [k \in 1..Len(json_data[i].data) |->
                      <<JsonScalar(json_data[i].data[k][1]),
                        JsonScalar(json_data[i].data[k][2])>>]]]

\* json.load and the conversion to PixelWeeklyData objects.
json_load(text) ==
    <<>> \o [i \in 1..Len(text) |->
        [year |-> PyScalar(text[i].year),
         data |-> <<>> \o [k \in 1..Len(text[i].data) |->
                      <<PyScalar(text[i].data[k][1]), PyScalar(text[i].data[k][2])>>]]]

\* A cache file holding the JSON text of recs.
JsonFile(recs) == [st |-> "ok", text |-> json_dump(recs)]

\* list.sort(key=year): stable insertion of rec into an ascending list.
RECURSIVE InsertByYear(_, _)
InsertByYear(sorted, rec) ==
    IF sorted = <<>> THEN <<rec>>
    ELSE IF sorted[Len(sorted)].year <= rec.year THEN Append(sorted, rec)
    ELSE Append(InsertByYear(SubSeq(sorted, 1, Len(sorted) - 1), rec),
                sorted[Len(sorted)])

RECURSIVE SortByYear(_)
SortByYear(recs) ==
    IF recs = <<>> THEN <<>>
    ELSE InsertByYear(SortByYear(SubSeq(recs, 1, Len(recs) - 1)), recs[Len(recs)])

load_pixel_data(file) ==
    IF file.st = "ok" THEN SortByYear(json_load(file.text)) ELSE <<>>

\* Sensitivity variant of SavedFile: the list is written in the order given.
SavedFile_Unsorted(pixel_data) == JsonFile(pixel_data)

\* Content of the file after a completed save.
SavedFile(pixel_data) == JsonFile(SortByYear(pixel_data))

\* existing_data[year][week_idx] of get_missing_weeks_for_pixel: the cell of
\* the last record of that year whose value at that index is not None.
RECURSIVE ExistingCell(_, _, _)
ExistingCell(pixel_data, year, week_idx) ==
    IF pixel_data = <<>> THEN EmptyCell
    ELSE LET last == pixel_data[Len(pixel_data)]
         IN  IF /\ last.year = year
                /\ week_idx + 1 <= Len(last.data)
                /\ last.data[week_idx + 1][1] # None
             THEN last.data[week_idx + 1]
             ELSE ExistingCell(SubSeq(pixel_data, 1, Len(pixel_data) - 1),
                               year, week_idx)

\* Sensitivity variant of IsMissingWeek: every error code is retried.
IsMissingWeek_RetryAllErrors(pixel_data, year, week_idx) ==
    LET cell == ExistingCell(pixel_data, year, week_idx)
    IN  cell[1] = None \/ cell[1] >= ERROR_OLD_MISSING

\* Sensitivity variant of IsMissingWeek: 301 is retried in place of 400.
IsMissingWeek_RetryOldMissing(pixel_data, year, week_idx) ==
    LET cell == ExistingCell(pixel_data, year, week_idx)
    IN  cell[1] = None \/ cell[1] = ERROR_OLD_MISSING

IsMissingWeek(pixel_data, year, week_idx) ==
    LET cell == ExistingCell(pixel_data, year, week_idx)
    IN  cell[1] = None \/ cell[1] = ERROR_RECENT_MISSING

\* Sensitivity variant of MissingWeeksFrom: weeks before the window start
\* are reported too.
MissingWeeksFrom_FromYearStart(pixel_data, year, current_date, range_start, range_end) ==
    LET steps == IF current_date > range_end THEN 0
                 ELSE (range_end - current_date) \div 7 + 1
        visited == [k \in 1..steps |->
                       <<current_date + 7 * (k - 1),
                         calculate_week_index(current_date + 7 * (k - 1), year)>>]
    IN  SelectSeq(visited, LAMBDA w : IsMissingWeek(pixel_data, year, w[2]))

\* Sensitivity variant of MissingWeeksFrom: the window end is exclusive.
MissingWeeksFrom_ExclusiveEnd(pixel_data, year, current_date, range_start, range_end) ==
    LET steps == IF current_date >= range_end THEN 0
                 ELSE (range_end - 1 - current_date) \div 7 + 1
        visited == [k \in 1..steps |->
                       <<current_date + 7 * (k - 1),
                         calculate_week_index(current_date + 7 * (k - 1), year)>>]
    IN  SelectSeq(visited, LAMBDA w : /\ w[1] >= range_start
                                      /\ IsMissingWeek(pixel_data, year, w[2]))

\* The while loop over one year (cache_manager.py 174-190): the dates it
\* visits, current_date stepping by 7 days while current_date <= range_end,
\* and of these, in order, the ones it appends.
MissingWeeksFrom(pixel_data, year, current_date, range_start, range_end) ==
    LET steps == IF current_date > range_end THEN 0
                 ELSE (range_end - current_date) \div 7 + 1
        visited == [k \in 1..steps |->
                       <<current_date + 7 * (k - 1),
                         calculate_week_index(current_date + 7 * (k - 1), year)>>]
    IN  SelectSeq(visited, LAMBDA w : /\ w[1] >= range_start
                                      /\ IsMissingWeek(pixel_data, year, w[2]))

\* The for loop over the years start_year..end_year.
RECURSIVE MissingWeeksYears(_, _, _, _, _)
MissingWeeksYears(pixel_data, year, end_year, start, end) ==
    IF year > end_year THEN <<>>
    ELSE MissingWeeksFrom(pixel_data, year, Jan1(year),
                          Max(Jan1(year), start), Min(Dec31(year), end))
         \o MissingWeeksYears(pixel_data, year + 1, end_year, start, end)

get_missing_weeks_for_pixel(file, start, end) ==
    MissingWeeksYears(load_pixel_data(file), YearOf(start), YearOf(end), start, end)

\* Find-or-create the year, pad the week array, set the cell
\* (cache_manager.py 210-231, fetch_snow_data.py 181-201).
\* Sensitivity variant of PadTo: a week list that is too short is replaced by
\* an empty one of the required length.
PadTo_Fresh(data, n) ==
    IF Len(data) >= n THEN data
    ELSE [i \in 1..n |-> EmptyCell]

PadTo(data, n) ==
    IF Len(data) >= n THEN data
    ELSE data \o [i \in 1..(n - Len(data)) |-> EmptyCell]

\* Sensitivity variant of FirstYearIndex: the record of the year is not found.
FirstYearIndex_NotFound(pixel_data, year) == 0

FirstYearIndex(pixel_data, year) ==
    IF \E i \in 1..Len(pixel_data) : pixel_data[i].year = year
    THEN CHOOSE i \in 1..Len(pixel_data) :
            /\ pixel_data[i].year = year
            /\ \A j \in 1..(i - 1) : pixel_data[j].year # year
    ELSE 0

SetWeek(pixel_data, date, value, cloud_persistence) ==
    LET year == YearOf(date)
        week_index == calculate_week_index(date, year)
        found == FirstYearIndex(pixel_data, year)
        list == IF found = 0
                THEN Append(pixel_data, create_empty_year_data(year))
                ELSE pixel_data
        i == IF found = 0 THEN Len(list) ELSE found
        padded == PadTo(list[i].data, week_index + 1)
    IN  [list EXCEPT ![i].data =
            [padded EXCEPT ![week_index + 1] = <<value, cloud_persistence>>]]


\* ------------------------------------------------------------------------
\* VIIRSSnowDataProcessor.__init__: the date window
\* ------------------------------------------------------------------------
\* from_year = to_year = the current year, so end_date is datetime.now().
from_year == EpochYear
start_date == Jan1(from_year)
end_date == ConstructDay

\* The week dates generated for the window (Jan 1 + 7k of each year).
WindowDates ==
    {d \in start_date..end_date :
        (d - Jan1(YearOf(d))) % 7 = 0 /\ d <= Dec31(YearOf(d))}

\* Instants at which the clock is observed: construction, and the first day
\* on which the first window date is older than old_missing_cutoff_days.
Clock == {ConstructDay, start_date + old_missing_cutoff_days + 1}

\* Non-empty pixel lists handed to process_tile (no pixel twice).
PixelBefore(p, q) == p[1] < q[1] \/ (p[1] = q[1] /\ p[2] < q[2])

\* Pixel lists handed to process_tile: the first pixel, or both.
PixelLists == {<<<<1500, 1000>>>>, <<<<1500, 1000>>, <<1500, 1001>>>>}

\* Arguments of direct update_pixel_week calls: <<date, value, cloud_persistence>>.
UpdateArgs == {<<0, 85, 1>>, <<7, 85, 1>>}

\* days argument of cleanup_old_errors.
CleanupDays == {7}

ErrorCodes == {ERROR_OLD_MISSING, ERROR_RECENT_MISSING, ERROR_OTHER}

\* ------------------------------------------------------------------------
\* State
\* ------------------------------------------------------------------------
VARIABLES
    now,            \* datetime.now(), in days
    max_workers,    \* thread-pool size of the processor
    files,          \* pixel -> content of its JSON cache file
    pc,             \* position of the main thread
    op,             \* operation the main thread is executing
    pixels_arg,     \* process_tile: the pixels argument
    date_to_pixels, \* process_tile: <<date, pixels>> in dict order
    futures,        \* executor: one record per submitted task
    all_results,    \* process_tile_dates_parallel: <<date, results>> as collected
    pixel_updates,  \* process_tile: <<pixel, updates>> in dict order
    merge_idx,      \* process_tile: position in pixel_updates
    stats,          \* process_tile: statistics being accumulated
    key,            \* save_pixel_data: pixel being saved
    pixel_data,     \* save_pixel_data: list being saved
    cleanup_files,  \* cleanup_old_error_codes: files still to visit
    cutoff_date,    \* cleanup_old_error_codes: argument
    files_updated,  \* cleanup_old_error_codes: counter
    cleanup_result, \* cleanup_old_error_codes: the value it returned
    rd,             \* result of a concurrent load_pixel_data that just returned
    \* history of the current operation
    start_files,    \* files when the current process_tile or cleanup began
    before,         \* what the main thread loaded before the current save
    loads,          \* merge-phase load_pixel_data calls per pixel, this run
    saves,          \* save_pixel_data calls per pixel, this run
    save_errors,    \* pixels whose save raised in the current process_tile or cleanup
    repeat,         \* the current process_tile directly repeats the previous one
    faults,         \* I/O errors so far
    rmw,            \* pixel -> writers between their load and the end of their save
    call            \* a single call of one function: its arguments and result

vars == <<now, max_workers, files, pc, op, pixels_arg, date_to_pixels, futures,
          all_results, pixel_updates, merge_idx, stats, key, pixel_data,
          cleanup_files, cutoff_date, files_updated, cleanup_result, rd,
          start_files, before, loads, saves, save_errors, repeat,
          faults, rmw, call>>

NoRead == [key |-> <<>>, got |-> <<>>]
ZeroStats == [processed_weeks |-> 0, updated_pixels |-> 0, errors |-> 0]
ZeroCount == [p \in Pixels |-> 0]

NoCall == [fn |-> "none"]

\* The processor and its collaborators after construction over a cache.
ConstructedOver(store) ==
    /\ now = ConstructDay
    /\ max_workers \in 1..MaxWorkers
    /\ files = store
    /\ pc = "idle"
    /\ op = "none"
    /\ pixels_arg = <<>>
    /\ date_to_pixels = <<>>
    /\ futures = <<>>
    /\ all_results = <<>>
    /\ pixel_updates = <<>>
    /\ merge_idx = 0
    /\ stats = ZeroStats
    /\ key = <<>>
    /\ pixel_data = <<>>
    /\ cleanup_files = <<>>
    /\ cutoff_date = 0
    /\ files_updated = 0
    /\ cleanup_result = None
    /\ rd = NoRead
    /\ start_files = [p \in Pixels |-> AbsentFile]
    /\ before = <<>>
    /\ loads = ZeroCount
    /\ saves = ZeroCount
    /\ save_errors = {}
    /\ repeat = FALSE
    /\ faults = 0
    /\ rmw = ZeroCount

\* The same, the cache empty.
Constructed == ConstructedOver([p \in Pixels |-> AbsentFile])

Init ==
    /\ Constructed
    /\ call = NoCall


runVars == <<pixels_arg, date_to_pixels, futures, all_results, pixel_updates,
             merge_idx, stats, start_files, loads, saves, save_errors,
             repeat>>
saveVars == <<key, pixel_data, before, rmw>>
cleanupVars == <<cleanup_files, cutoff_date, files_updated, cleanup_result>>
envVars == <<now, max_workers, faults, call>>

\* ------------------------------------------------------------------------
\* Helpers of process_tile
\* ------------------------------------------------------------------------
RECURSIVE SortedSeq(_)
SortedSeq(S) ==
    IF S = {} THEN <<>>
    ELSE LET m == CHOOSE x \in S : \A y \in S : x <= y
         IN  <<m>> \o SortedSeq(S \ {m})

RECURSIVE PixelSeq(_)
PixelSeq(S) ==
    IF S = {} THEN <<>>
    ELSE LET m == CHOOSE x \in S : \A y \in S \ {x} : PixelBefore(x, y)
         IN  <<m>> \o PixelSeq(S \ {m})

DatesOf(missing_weeks) == {missing_weeks[j][1] : j \in 1..Len(missing_weeks)}

\* Sensitivity variant of PixelsForDate: every pixel of the tile is requested.
PixelsForDate_All(pixels, fs, date) == pixels

\* Step 2 of process_tile: the pixels whose own missing list contains date.
PixelsForDate(pixels, fs, date) ==
    LET Needs(p) ==
            date \in DatesOf(get_missing_weeks_for_pixel(fs[p], start_date, end_date))
    IN  SelectSeq(pixels, Needs)

\* Sensitivity variant of BuildDateToPixels: every week of the window is
\* requested for every pixel, missing or not.
BuildDateToPixels_WholeWindow(pixels, fs) ==
    LET sorted_dates == SortedSeq(WindowDates)
    IN  [i \in 1..Len(sorted_dates) |-> <<sorted_dates[i], pixels>>]

\* Steps 1 and 2 of process_tile: <<date, pixels_for_date>> by ascending date.
BuildDateToPixels(pixels, fs) ==
    LET all_missing_weeks ==
            UNION {DatesOf(get_missing_weeks_for_pixel(fs[pixels[i]], start_date, end_date)) :
                       i \in 1..Len(pixels)}
        sorted_dates == SortedSeq(all_missing_weeks)
        NonEmpty(e) == e[2] # <<>>
    IN  SelectSeq([i \in 1..Len(sorted_dates) |->
                      <<sorted_dates[i], PixelsForDate(pixels, fs, sorted_dates[i])>>],
                  NonEmpty)

\* executor.submit for every item of date_to_pixels.
SubmitAll(d2p) ==
    [i \in 1..Len(d2p) |->
        [date |-> d2p[i][1], pixels |-> d2p[i][2], st |-> "queued",
         outcome |-> "none", result |-> <<>>, started |-> 0]]

\* ------------------------------------------------------------------------
\* VIIRSDataFetcher
\* ------------------------------------------------------------------------
\* Sensitivity variant of _is_old_date: a date exactly at the cutoff is old.
_is_old_date_Inclusive(date, t) == date <= t - old_missing_cutoff_days

\* Sensitivity variant of _is_old_date: no date is old.
_is_old_date_Never(date, t) == FALSE

_is_old_date(date, t) == date < t - old_missing_cutoff_days

\* process_tile_date when download_hdf_file returned None.
NoFileResult(date, pixels, t) ==
    LET error_code == IF _is_old_date(date, t) THEN ERROR_OLD_MISSING
                      ELSE ERROR_RECENT_MISSING
    IN  [i \in 1..Len(pixels) |-> <<pixels[i], <<error_code, 0>>>>]

\* What extract_pixel_values / get_cloud_persistence_value give for one pixel.
Extracted == Readings \cup {<<None, 0>>}

\* process_tile_date when the tile file was obtained.
FileResult(pixels, vals) ==
    [i \in 1..Len(pixels) |->
        <<pixels[i], IF vals[i][1] # None THEN vals[i] ELSE <<ERROR_OTHER, 0>>>>]

\* The except branch of process_tile_dates_parallel.
\* Sensitivity variant of ExceptionResult: a raised task contributes nothing.
ExceptionResult_Dropped(pixels) == <<>>

ExceptionResult(pixels) ==
    [i \in 1..Len(pixels) |-> <<pixels[i], <<ERROR_OTHER, 0>>>>]

RunningCount == Cardinality({i \in 1..Len(futures) : futures[i].st = "running"})

\* A pool thread is free to take a queued task.
\* Sensitivity variant of WorkerFree: the pool has no worker limit.
WorkerFree_Unbounded == TRUE

WorkerFree == RunningCount < max_workers

\* No more tasks than window dates.
MaxTasks == Cardinality(WindowDates)

\* Sensitivity variant of AllCollected: the first collected result suffices.
AllCollected_Any(fs) == \E i \in 1..Len(fs) : fs[i].st = "collected"

AllCollected(fs) == \A i \in 1..Len(fs) : fs[i].st = "collected"

PixelsOfDate(d2p, date) ==
    LET i == CHOOSE j \in 1..Len(d2p) : d2p[j][1] = date IN d2p[i][2]

\* ------------------------------------------------------------------------
\* Steps 3-4 of process_tile: statistics and grouping by pixel
\* ------------------------------------------------------------------------
\* <<pixel, date, value, cloud_persistence>> in iteration order of all_results.
RECURSIVE Flatten(_)
Flatten(results) ==
    IF results = <<>> THEN <<>>
    ELSE LET h == Head(results)
         IN  [j \in 1..Len(h[2]) |-> <<h[2][j][1], h[1], h[2][j][2][1], h[2][j][2][2]>>]
             \o Flatten(Tail(results))

RECURSIVE FirstSeen(_, _)
FirstSeen(flat, seen) ==
    IF flat = <<>> THEN <<>>
    ELSE IF Head(flat)[1] \in seen THEN FirstSeen(Tail(flat), seen)
    ELSE <<Head(flat)[1]>> \o FirstSeen(Tail(flat), seen \cup {Head(flat)[1]})

UpdatesOf(flat, p) ==
    LET Mine(e) == e[1] = p
        mine == SelectSeq(flat, Mine)
    IN  [j \in 1..Len(mine) |-> <<mine[j][2], mine[j][3], mine[j][4]>>]

\* Sensitivity variant of GroupByPixel: one group per update, not per pixel.
GroupByPixel_PerUpdate(results) ==
    LET flat == Flatten(results)
    IN  [i \in 1..Len(flat) |-> <<flat[i][1], <<<<flat[i][2], flat[i][3], flat[i][4]>>>>>>]

GroupByPixel(results) ==
    LET flat == Flatten(results)
        order == FirstSeen(flat, {})
    IN  [i \in 1..Len(order) |-> <<order[i], UpdatesOf(flat, order[i])>>]

CountErrors(results) ==
    LET IsError(e) == e[3] \in ErrorCodes
    IN  Len(SelectSeq(Flatten(results), IsError))

RECURSIVE ApplyUpdates(_, _)
ApplyUpdates(data, updates) ==
    IF updates = <<>> THEN data
    ELSE LET u == Head(updates)
         IN  ApplyUpdates(SetWeek(data, u[1], u[2], u[3]), Tail(updates))

\* cleanup_old_error_codes: the lists after the reset loop.
CleanData(data, cutoff, error_codes) ==
    [i \in 1..Len(data) |->
        [year |-> data[i].year,
         data |-> [k \in 1..Len(data[i].data) |->
                     IF /\ data[i].data[k][1] \in error_codes
                        /\ Jan1(data[i].year) + (k - 1) * 7 < cutoff
                     THEN EmptyCell
                     ELSE data[i].data[k]]]]


\* ------------------------------------------------------------------------
\* Actions: process_tile
\* ------------------------------------------------------------------------
\* process_tile up to executor.submit (fetch_snow_data.py 120-153,
\* data_fetcher.py 311-319); returns at once when nothing is missing.
StartRun(pixels, again) ==
    /\ LET d2p == BuildDateToPixels(pixels, files)
       IN  /\ date_to_pixels' = d2p
           /\ futures' = SubmitAll(d2p)
           /\ pc' = IF d2p = <<>> THEN "return" ELSE "fetch"
    /\ op' = "process_tile"
    /\ pixels_arg' = pixels
    /\ stats' = ZeroStats
    /\ start_files' = files
    /\ loads' = ZeroCount
    /\ saves' = ZeroCount
    /\ save_errors' = {}
    /\ repeat' = again
    /\ all_results' = <<>>
    /\ pixel_updates' = <<>>
    /\ merge_idx' = 0
    /\ rd' = NoRead
    /\ UNCHANGED <<envVars, files, saveVars, cleanupVars>>

\* The callers (main, run) invoke one operation after the other.
\* Sensitivity variant of MainThreadFree: callers do not wait for each other.
MainThreadFree_Always == TRUE

MainThreadFree == pc = "idle"

ProcessTileStart(pixels) ==
    /\ MainThreadFree
    /\ StartRun(pixels, FALSE)

\* process_tile has returned and the caller calls it again at once with the
\* same pixels.
ProcessTileAgain ==
    /\ pc = "return"
    /\ ~repeat
    /\ StartRun(pixels_arg, TRUE)

\* A pool thread takes the oldest queued task.
StartTask(i) ==
    /\ pc = "fetch"
    /\ i \in 1..Len(futures)
    /\ futures[i].st = "queued"
    /\ \A j \in 1..(i - 1) : futures[j].st # "queued"
    /\ WorkerFree
    /\ futures' = [futures EXCEPT ![i].st = "running", ![i].started = @ + 1]
    /\ rd' = NoRead
    /\ UNCHANGED <<envVars, files, pc, op, pixels_arg, date_to_pixels, all_results,
                   pixel_updates, merge_idx, stats, start_files, loads, saves, save_errors,
                   repeat, saveVars, cleanupVars>>

\* process_tile_date runs to its end in a pool thread: no tile file, a tile
\* file with a reading or None per pixel, or an exception leaving the task.
FinishTask(i) ==
    /\ pc = "fetch"
    /\ i \in 1..Len(futures)
    /\ futures[i].st = "running"
    /\ \/ futures' = [futures EXCEPT
                         ![i].st = "done", ![i].outcome = "nofile",
                         ![i].result = NoFileResult(futures[i].date, futures[i].pixels, now)]
       \/ \E vals \in [1..Len(futures[i].pixels) -> Extracted] :
            futures' = [futures EXCEPT
                           ![i].st = "done", ![i].outcome = "file",
                           ![i].result = FileResult(futures[i].pixels, vals)]
       \/ futures' = [futures EXCEPT
                         ![i].st = "done", ![i].outcome = "raise"]
    /\ rd' = NoRead
    /\ UNCHANGED <<envVars, files, pc, op, pixels_arg, date_to_pixels, all_results,
                   pixel_updates, merge_idx, stats, start_files, loads, saves, save_errors,
                   repeat, saveVars, cleanupVars>>

\* as_completed hands a finished future to the main thread; after the last
\* one the executor is shut down and steps 3-4 of process_tile run
\* (data_fetcher.py 322-333, fetch_snow_data.py 155-171).
CollectResult(i) ==
    /\ pc = "fetch"
    /\ i \in 1..Len(futures)
    /\ futures[i].st = "done"
    /\ LET date == futures[i].date
           result == IF futures[i].outcome = "raise"
                     THEN ExceptionResult(PixelsOfDate(date_to_pixels, date))
                     ELSE futures[i].result
           results == Append(all_results, <<date, result>>)
           fs == [futures EXCEPT ![i].st = "collected"]
       IN  /\ futures' = fs
           /\ all_results' = results
           /\ IF AllCollected(fs)
              THEN /\ stats' = [processed_weeks |-> Len(results),
                                updated_pixels |-> 0,
                                errors |-> CountErrors(results)]
                   /\ pixel_updates' = GroupByPixel(results)
                   /\ merge_idx' = 1
                   /\ pc' = "merge"
              ELSE UNCHANGED <<stats, pixel_updates, merge_idx, pc>>
    /\ rd' = NoRead
    /\ UNCHANGED <<envVars, files, op, pixels_arg, date_to_pixels, start_files,
                   loads, saves, save_errors, repeat, saveVars, cleanupVars>>

\* One pixel of the batch update: load once, apply all its updates, call
\* save_pixel_data (fetch_snow_data.py 174-205).
MergeLoad ==
    /\ pc = "merge"
    /\ LET p == pixel_updates[merge_idx][1]
           updates == pixel_updates[merge_idx][2]
           loaded == load_pixel_data(files[p])
       IN  /\ pixel_data' = ApplyUpdates(loaded, updates)
           /\ stats' = [stats EXCEPT !.updated_pixels = @ + Len(updates)]
           /\ key' = p
           /\ before' = loaded
           /\ rmw' = [rmw EXCEPT ![p] = @ + 1]
           /\ loads' = [loads EXCEPT ![p] = @ + 1]
    /\ pc' = "open"
    /\ rd' = NoRead
    /\ UNCHANGED <<envVars, files, op, pixels_arg, date_to_pixels, futures,
                   all_results, pixel_updates, merge_idx, start_files, saves, save_errors,
                   repeat, cleanupVars>>

\* process_tile returns stats.
ReturnStats ==
    /\ pc' = "idle"
    /\ op' = "none"
    /\ pixels_arg' = <<>>
    /\ date_to_pixels' = <<>>
    /\ futures' = <<>>
    /\ all_results' = <<>>
    /\ pixel_updates' = <<>>
    /\ merge_idx' = 0
    /\ stats' = ZeroStats
    /\ start_files' = [p \in Pixels |-> AbsentFile]
    /\ loads' = ZeroCount
    /\ saves' = ZeroCount
    /\ save_errors' = {}
    /\ repeat' = FALSE
    /\ rd' = NoRead
    /\ UNCHANGED <<files, saveVars, cleanupVars>>

ProcessTileReturn ==
    /\ pc = "return"
    /\ ReturnStats
    /\ UNCHANGED envVars

\* ------------------------------------------------------------------------
\* Actions: save_pixel_data, in the two steps a concurrent reader can tell
\* apart: open(cache_path, 'w') truncates the file, json.dump fills it.
\* ------------------------------------------------------------------------
\* Where the caller of save_pixel_data goes on; ok is FALSE when it raised.
\* Sensitivity variant of CleanupReturnValue: the count is returned.
CleanupReturnValue_Count(count) == count

\* cleanup_old_error_codes ends with a log line and no return statement.
CleanupReturnValue(count) == None

\* Sensitivity variant of SaveReturn: a failed save ends the merge loop.
SaveReturn_AbortOnError(ok) ==
    /\ key' = <<>>
    /\ pixel_data' = <<>>
    /\ before' = <<>>
    /\ rmw' = [rmw EXCEPT ![key] = @ - 1]
    /\ CASE op = "process_tile" ->
              /\ stats' = IF ok THEN stats ELSE [stats EXCEPT !.errors = @ + 1]
              /\ merge_idx' = merge_idx + 1
              /\ pc' = IF ~ok \/ merge_idx + 1 > Len(pixel_updates) THEN "return" ELSE "merge"
              /\ UNCHANGED <<op, cleanupVars>>
         [] op = "update_pixel_week" ->
              /\ pc' = "idle"
              /\ op' = "none"
              /\ UNCHANGED <<stats, merge_idx, cleanupVars>>
         [] op = "cleanup" ->
              /\ files_updated' = IF ok THEN files_updated + 1 ELSE files_updated
              /\ pc' = IF cleanup_files = <<>> THEN "cleaned" ELSE "cleanup"
              /\ cleanup_result' =
                    IF cleanup_files = <<>>
                    THEN CleanupReturnValue(IF ok THEN files_updated + 1 ELSE files_updated)
                    ELSE cleanup_result
              /\ UNCHANGED <<op, cutoff_date, stats, merge_idx, cleanup_files>>

SaveReturn(ok) ==
    /\ key' = <<>>
    /\ pixel_data' = <<>>
    /\ before' = <<>>
    /\ rmw' = [rmw EXCEPT ![key] = @ - 1]
    /\ CASE op = "process_tile" ->
              /\ stats' = IF ok THEN stats ELSE [stats EXCEPT !.errors = @ + 1]
              /\ merge_idx' = merge_idx + 1
              /\ pc' = IF merge_idx + 1 > Len(pixel_updates) THEN "return" ELSE "merge"
              /\ UNCHANGED <<op, cleanupVars>>
         [] op = "update_pixel_week" ->
              /\ pc' = "idle"
              /\ op' = "none"
              /\ UNCHANGED <<stats, merge_idx, cleanupVars>>
         [] op = "cleanup" ->
              /\ files_updated' = IF ok THEN files_updated + 1 ELSE files_updated
              /\ pc' = IF cleanup_files = <<>> THEN "cleaned" ELSE "cleanup"
              /\ cleanup_result' =
                    IF cleanup_files = <<>>
                    THEN CleanupReturnValue(IF ok THEN files_updated + 1 ELSE files_updated)
                    ELSE cleanup_result
              /\ UNCHANGED <<op, cutoff_date, stats, merge_idx, cleanup_files>>

CountSave == IF op = "process_tile" THEN [saves EXCEPT ![key] = @ + 1] ELSE saves

\* The except branch around the save was entered for the pixel
\* (fetch_snow_data.py 207-209, cache_manager.py 317-318).
NoteSaveError ==
    IF op \in {"process_tile", "cleanup"} THEN save_errors \cup {key} ELSE save_errors

\* mkdir and open succeed: the file exists and is empty.
SaveOpen ==
    /\ pc = "open"
    /\ files' = [files EXCEPT ![key] = CorruptFile]
    /\ pc' = "dump"
    /\ saves' = CountSave
    /\ rd' = NoRead
    /\ UNCHANGED <<envVars, op, pixels_arg, date_to_pixels, futures, all_results,
                   pixel_updates, merge_idx, stats, start_files, loads, repeat,
                   save_errors, saveVars, cleanupVars>>

\* mkdir or open raises: the file is as it was.
SaveOpenFail ==
    /\ pc = "open"
    /\ faults < MaxFaults
    /\ faults' = faults + 1
    /\ save_errors' = NoteSaveError
    /\ saves' = CountSave
    /\ SaveReturn(FALSE)
    /\ rd' = NoRead
    /\ UNCHANGED <<now, max_workers, call, files, pixels_arg, date_to_pixels, futures, all_results,
                   pixel_updates, start_files, loads, repeat>>

\* json.dump and close succeed.
SaveDump ==
    /\ pc = "dump"
    /\ files' = [files EXCEPT ![key] = SavedFile(pixel_data)]
    /\ SaveReturn(TRUE)
    /\ rd' = NoRead
    /\ UNCHANGED <<envVars, pixels_arg, date_to_pixels, futures, all_results,
                   pixel_updates, start_files, loads, saves, save_errors, repeat>>

\* json.dump raises (an I/O error): the truncated file stays behind.
SaveDumpFail ==
    /\ pc = "dump"
    /\ faults < MaxFaults
    /\ faults' = faults + 1
    /\ save_errors' = NoteSaveError
    /\ SaveReturn(FALSE)
    /\ rd' = NoRead
    /\ UNCHANGED <<now, max_workers, call, files, pixels_arg, date_to_pixels, futures, all_results,
                   pixel_updates, start_files, loads, saves, repeat>>

\* ------------------------------------------------------------------------
\* Actions: update_pixel_week, cleanup_old_error_codes, the clock, a reader
\* ------------------------------------------------------------------------
\* update_pixel_week up to its call of save_pixel_data.
UpdatePixelWeek(p, date, value, cloud_persistence) ==
    /\ MainThreadFree
    /\ LET loaded == load_pixel_data(files[p])
       IN  /\ pixel_data' = SetWeek(loaded, date, value, cloud_persistence)
           /\ before' = loaded
    /\ key' = p
    /\ rmw' = [rmw EXCEPT ![p] = @ + 1]
    /\ op' = "update_pixel_week"
    /\ pc' = "open"
    /\ rd' = NoRead
    /\ UNCHANGED <<envVars, files, runVars, cleanupVars>>

\* cleanup_old_errors(days): cleanup_old_error_codes lists the cache files.
CleanupStart(days) ==
    /\ MainThreadFree
    /\ LET existing == PixelSeq({p \in Pixels : files[p].st # "absent"})
       IN  /\ existing # <<>>
           /\ cleanup_files' = existing
    /\ cutoff_date' = now - days
    /\ files_updated' = 0
    /\ op' = "cleanup"
    /\ pc' = "cleanup"
    /\ start_files' = files
    /\ save_errors' = {}
    /\ rd' = NoRead
    /\ UNCHANGED <<envVars, files, pixels_arg, date_to_pixels, futures, all_results,
                   pixel_updates, merge_idx, stats, loads, saves, repeat,
                   saveVars, cleanup_result>>

\* One cache file of cleanup_old_error_codes, up to its save if modified.
CleanupFile ==
    /\ pc = "cleanup"
    /\ LET p == Head(cleanup_files)
           loaded == load_pixel_data(files[p])
           cleaned == CleanData(loaded, cutoff_date, {ERROR_RECENT_MISSING})
           modified == cleaned # loaded
       IN  /\ cleanup_files' = Tail(cleanup_files)
           /\ IF modified
              THEN /\ key' = p
                   /\ pixel_data' = cleaned
                   /\ before' = loaded
                   /\ rmw' = [rmw EXCEPT ![p] = @ + 1]
                   /\ pc' = "open"
                   /\ UNCHANGED <<op, cutoff_date, files_updated, cleanup_result>>
              ELSE /\ UNCHANGED <<saveVars, op, cutoff_date, files_updated>>
                   /\ IF Tail(cleanup_files) = <<>>
                      THEN /\ pc' = "cleaned"
                           /\ cleanup_result' = CleanupReturnValue(files_updated)
                      ELSE UNCHANGED <<pc, cleanup_result>>
    /\ rd' = NoRead
    /\ UNCHANGED <<envVars, files, runVars>>

\* cleanup_old_error_codes has returned to cleanup_old_errors, which returns.
CleanupReturn ==
    /\ pc = "cleaned"
    /\ pc' = "idle"
    /\ op' = "none"
    /\ cutoff_date' = 0
    /\ files_updated' = 0
    /\ start_files' = [p \in Pixels |-> AbsentFile]
    /\ save_errors' = {}
    /\ rd' = NoRead
    /\ UNCHANGED <<envVars, files, pixels_arg, date_to_pixels, futures, all_results,
                   pixel_updates, merge_idx, stats, loads, saves, repeat,
                   saveVars, cleanup_files, cleanup_result>>

\* Time passes between two operations of the main thread.
Tick(t) ==
    /\ t \in Clock
    /\ t > now
    /\ pc = "idle"
    /\ now' = t
    /\ rd' = NoRead
    /\ UNCHANGED <<max_workers, faults, call, files, pc, op, runVars, saveVars, cleanupVars>>

\* Another thread or process calls load_pixel_data while the main thread is
\* inside save_pixel_data.
ReaderLoad(p) ==
    /\ pc \in {"open", "dump"}
    /\ rd' = [key |-> p, got |-> load_pixel_data(files[p])]
    /\ UNCHANGED <<envVars, files, pc, op, runVars, saveVars, cleanupVars>>

Next ==
    \/ \E pixels \in PixelLists : ProcessTileStart(pixels)
    \/ \E i \in 1..MaxTasks : StartTask(i)
    \/ \E i \in 1..MaxTasks : FinishTask(i)
    \/ \E i \in 1..MaxTasks : CollectResult(i)
    \/ MergeLoad
    \/ ProcessTileReturn
    \/ SaveOpen
    \/ SaveOpenFail
    \/ SaveDump
    \/ SaveDumpFail
    \/ \E p \in Pixels, a \in UpdateArgs : UpdatePixelWeek(p, a[1], a[2], a[3])
    \/ \E days \in CleanupDays : CleanupStart(days)
    \/ CleanupFile
    \/ CleanupReturn
    \/ \E t \in Clock : Tick(t)

Spec == Init /\ [][Next]_vars

\* The same program whose caller may repeat a process_tile at once.
NextTwice == Next \/ ProcessTileAgain

SpecTwice == Init /\ [][NextTwice]_vars

\* The same program with a concurrent reader of the cache files.
NextReader == Next \/ \E p \in Pixels : ReaderLoad(p)

SpecReader == Init /\ [][NextReader]_vars


\* ------------------------------------------------------------------------
\* VIIRSSnowDataProcessor.run over a cache that may already hold entries
\* ------------------------------------------------------------------------
\* In a run the two pixels lie in different tiles, so a cache key is still
\* determined by its pixel.
RunTileOf == (<<1500, 1000>> :> "h18v04") @@ (<<1500, 1001>> :> "h18v05")

\* What process_runs_geojson returns: <<tile, pixels>> in dict order.
GeoJsonInputs ==
    {<<>>,
     <<<<"h18v04", <<<<1500, 1000>>>>>>>>,
     <<<<"h18v04", <<<<1500, 1000>>>>>>, <<"h18v05", <<<<1500, 1001>>>>>>>>}

\* max_tiles: 0 stands for None.
MaxTilesArgs == {0, 1}

ObservedYear(values) ==
    [year |-> from_year,
     data |-> [i \in 1..WEEKS_PER_YEAR |->
                  IF i <= Len(values) THEN <<values[i], 1>> ELSE EmptyCell]]

\* Caches a run can start over: each pixel without an entry or with one.
RunStores ==
    {[p \in Pixels |-> IF p = <<1500, 1000>> THEN a ELSE b] :
        a \in {AbsentFile, JsonFile(<<ObservedYear(<<85, 85>>)>>)},
        b \in {AbsentFile, JsonFile(<<ObservedYear(<<85>>)>>)}}

RunCall(m, h, g, n) ==
    [fn |-> "run", fill_cache_mode |-> m, has_path |-> h, geojson |-> g,
     max_tiles |-> n, st |-> "called", pixels_by_tile |-> <<>>,
     tiles_to_process |-> <<>>, i |-> 0, total_stats |-> ZeroStats,
     fetched |-> {}, failed |-> {}, ret |-> FALSE,
     exit |-> "none", cleanup_calls |-> 0,
     temp_dir |-> TRUE, runs |-> 1, at_source |-> WindowDates]

RunCalls ==
    {RunCall(m, FALSE, <<>>, n) : m \in BOOLEAN, n \in MaxTilesArgs} \cup
    {RunCall(m, TRUE, g, n) : m \in BOOLEAN, g \in GeoJsonInputs, n \in MaxTilesArgs}

InitRun ==
    /\ \E store \in RunStores : ConstructedOver(store)
    /\ call \in RunCalls

RECURSIVE SumSeq(_)
SumSeq(ns) == IF ns = <<>> THEN 0 ELSE Head(ns) + SumSeq(Tail(ns))

RECURSIVE ConcatAll(_)
ConcatAll(seqs) == IF seqs = <<>> THEN <<>> ELSE Head(seqs) \o ConcatAll(Tail(seqs))

\* get_missing_data_summary: 'total_missing_weeks'.
total_missing_weeks(pixels_by_tile, fs) ==
    LET pixels == ConcatAll([t \in 1..Len(pixels_by_tile) |-> pixels_by_tile[t][2]])
    IN  SumSeq([j \in 1..Len(pixels) |->
                   Len(get_missing_weeks_for_pixel(fs[pixels[j]], start_date, end_date))])

\* Sensitivity variant of RunSucceeded: errors do not fail the run.
RunSucceeded_Always(total_stats) == TRUE

\* The value run returns after the last tile.
RunSucceeded(total_stats) == total_stats.errors = 0

\* Sensitivity variant of Finally: data_fetcher.cleanup() is not called.
Finally_Skipped(c) == c

\* The finally clause of run: self.data_fetcher.cleanup(), which removes the
\* fetcher's temporary directory.
Finally(c) == [c EXCEPT !.cleanup_calls = @ + 1, !.temp_dir = FALSE]

\* run leaves by the named exit with the value, through the finally clause.
RunReturned(exit, value) ==
    Finally([call EXCEPT !.st = "returned", !.exit = exit, !.ret = value])

\* run up to its loop over the tiles.  PixelCacheManager has no attribute
\* discover_existing_pixels: in fill-cache mode the call raises
\* AttributeError, which the except branch of run turns into False.
RunStart ==
    /\ call.fn = "run"
    /\ call.st = "called"
    /\ pc = "idle"
    /\ call' =
         IF call.fill_cache_mode THEN RunReturned("AttributeError", FALSE)
         ELSE IF ~call.has_path THEN RunReturned("ValueError", FALSE)
         ELSE IF call.geojson = <<>>
              THEN [RunReturned("no pixels", FALSE) EXCEPT
                       !.pixels_by_tile = call.geojson]
         ELSE IF total_missing_weeks(call.geojson, files) = 0
              THEN [RunReturned("nothing missing", TRUE) EXCEPT
                       !.pixels_by_tile = call.geojson]
         ELSE [call EXCEPT
                  !.st = "tiles",
                  !.pixels_by_tile = call.geojson,
                  !.tiles_to_process =
                      IF call.max_tiles # 0
                      THEN SubSeq(call.geojson, 1, Min(call.max_tiles, Len(call.geojson)))
                      ELSE call.geojson,
                  !.i = 1]
    /\ UNCHANGED <<now, max_workers, faults, files, pc, op, runVars, saveVars,
                   cleanupVars, rd>>

\* self.process_tile(tile, pixels) for the next tile.
RunProcessTile ==
    /\ call.fn = "run"
    /\ call.st = "tiles"
    /\ pc = "idle"
    /\ call.i <= Len(call.tiles_to_process)
    /\ StartRun(call.tiles_to_process[call.i][2], FALSE)

\* process_tile returns and run adds tile_stats to total_stats.
RunTileReturn ==
    /\ call.fn = "run"
    /\ pc = "return"
    /\ call' = [call EXCEPT
                   !.total_stats =
                       [k \in DOMAIN ZeroStats |-> call.total_stats[k] + stats[k]],
                   !.fetched = @ \cup
                       UNION {{<<pixel_updates[a][1]>> \o pixel_updates[a][2][b] :
                                  b \in 1..Len(pixel_updates[a][2])} :
                              a \in 1..Len(pixel_updates)},
                   !.failed = @ \cup save_errors,
                   !.i = @ + 1]
    /\ ReturnStats
    /\ UNCHANGED <<now, max_workers, faults>>

\* After the last tile run returns whether there were no errors.
RunReturn ==
    /\ call.fn = "run"
    /\ call.st = "tiles"
    /\ pc = "idle"
    /\ call.i > Len(call.tiles_to_process)
    /\ call' = RunReturned("processed", RunSucceeded(call.total_stats))
    /\ UNCHANGED <<now, max_workers, faults, files, pc, op, runVars, saveVars,
                   cleanupVars, rd>>

NextRun ==
    \/ RunStart
    \/ RunProcessTile
    \/ \E i \in 1..MaxTasks : StartTask(i)
    \/ \E i \in 1..MaxTasks : FinishTask(i)
    \/ \E i \in 1..MaxTasks : CollectResult(i)
    \/ MergeLoad
    \/ SaveOpen
    \/ SaveOpenFail
    \/ SaveDump
    \/ SaveDumpFail
    \/ RunTileReturn
    \/ RunReturn

SpecRun == InitRun /\ [][NextRun]_vars

\* ------------------------------------------------------------------------
\* run called again on the same processor, with the tile files of the dates
\* in at_source available at the source. The fetcher's temporary directory
\* (temp_dir) is created by its constructor.
\* ------------------------------------------------------------------------
\* download_hdf_file: None when the source has no file for the date; the
\* file is written into the temporary directory, and when open() raises
\* because the directory is gone the except branch returns None.
download_hdf_file(temp_dir, available) ==
    IF ~available THEN "None"
    ELSE IF temp_dir THEN "path"
    ELSE "None"

\* process_tile_date runs to its end in a pool thread of a run.
RunFinishTask(i) ==
    /\ call.fn = "run"
    /\ pc = "fetch"
    /\ i \in 1..Len(futures)
    /\ futures[i].st = "running"
    /\ IF download_hdf_file(call.temp_dir, futures[i].date \in call.at_source) = "None"
       THEN futures' = [futures EXCEPT
                           ![i].st = "done", ![i].outcome = "nofile",
                           ![i].result = NoFileResult(futures[i].date,
                                                      futures[i].pixels, now)]
       ELSE \E vals \in [1..Len(futures[i].pixels) -> Extracted] :
              futures' = [futures EXCEPT
                             ![i].st = "done", ![i].outcome = "file",
                             ![i].result = FileResult(futures[i].pixels, vals)]
    /\ rd' = NoRead
    /\ UNCHANGED <<envVars, files, pc, op, pixels_arg, date_to_pixels, all_results,
                   pixel_updates, merge_idx, stats, start_files, loads, saves, save_errors,
                   repeat, saveVars, cleanupVars>>

\* The caller calls run again on the same processor, with new arguments.
RunAgain(c) ==
    /\ call.fn = "run"
    /\ call.st = "returned"
    /\ call.runs = 1
    /\ pc = "idle"
    /\ call' = [c EXCEPT !.runs = 2,
                         !.temp_dir = call.temp_dir,
                         !.cleanup_calls = call.cleanup_calls,
                         !.at_source = call.at_source]
    /\ UNCHANGED <<now, max_workers, faults, files, pc, op, runVars, saveVars,
                   cleanupVars, rd>>

\* Calls of run with a GeoJSON path, not in fill-cache mode.
GeoJsonRunCalls ==
    {RunCall(FALSE, TRUE, g, n) : g \in GeoJsonInputs, n \in MaxTilesArgs}

InitRunTwice ==
    /\ Constructed
    /\ call \in {[c EXCEPT !.at_source = s] :
                    c \in GeoJsonRunCalls, s \in SUBSET WindowDates}

NextRunTwice ==
    \/ RunStart
    \/ RunProcessTile
    \/ \E i \in 1..MaxTasks : StartTask(i)
    \/ \E i \in 1..MaxTasks : RunFinishTask(i)
    \/ \E i \in 1..MaxTasks : CollectResult(i)
    \/ MergeLoad
    \/ SaveOpen
    \/ SaveOpenFail
    \/ SaveDump
    \/ SaveDumpFail
    \/ RunTileReturn
    \/ RunReturn
    \/ \E c \in GeoJsonRunCalls : RunAgain(c)

SpecRunTwice == InitRunTwice /\ [][NextRunTwice]_vars

\* ------------------------------------------------------------------------
\* Single calls of get_missing_weeks_for_pixel and of process_tile_date
\* without a tile file, on arguments drawn from bounded sets
\* ------------------------------------------------------------------------
GapValues == {None, 85, ERROR_OLD_MISSING, ERROR_RECENT_MISSING, ERROR_OTHER}

GapCell(v) == <<v, IF v = 85 THEN 1 ELSE 0>>

\* A yearly record of 53 weeks with values a, b, c at week 0, 1 and 52.
YearRec(year, a, b, c) ==
    [year |-> year,
     data |-> [i \in 1..WEEKS_PER_YEAR |->
                  IF i = 1 THEN GapCell(a)
                  ELSE IF i = 2 THEN GapCell(b)
                  ELSE IF i = WEEKS_PER_YEAR THEN GapCell(c)
                  ELSE EmptyCell]]

GapEntries ==
    {<<>>} \cup
    {<<YearRec(EpochYear, a, b, c)>> : a \in GapValues, b \in GapValues, c \in GapValues} \cup
    {<<YearRec(EpochYear - 1, None, None, c), YearRec(EpochYear, a, None, None)>> :
        a \in GapValues, c \in GapValues} \cup
    {<<[year |-> EpochYear, data |-> <<GapCell(a), GapCell(b)>>]>> :
        a \in GapValues, b \in GapValues}

\* <<start_date, end_date>>: Jan 1-10, Jan 1-Feb 1, Jan 4-10, Dec 25-Jan 10,
\* Jan 1-Dec 31 of the year before, of the year and of the year after.
GapWindows ==
    {<<0, 9>>, <<0, 31>>, <<3, 9>>, <<0 - 7, 9>>} \cup
    {<<Jan1(y), Dec31(y)>> : y \in (EpochYear - 1)..(EpochYear + 1)}

GapCalls ==
    {[fn |-> "get_missing_weeks_for_pixel", recs |-> e, start |-> w[1],
      end |-> w[2], done |-> FALSE, ret |-> <<>>] :
        e \in GapEntries, w \in GapWindows}

NoFileCalls ==
    {[fn |-> "process_tile_date", date |-> d, pixels |-> ps, t |-> d + age,
      done |-> FALSE, ret |-> <<>>] :
        d \in {0, 7}, ps \in PixelLists,
        age \in (old_missing_cutoff_days - 2)..(old_missing_cutoff_days + 2)}

\* A downloaded tile file: the shape of its grids, the raw value and the
\* cloud persistence it holds per pixel, whether the snow cover dataset can
\* be read, and whether the cloud persistence dataset is present, absent or
\* unreadable.
TileShapes == {<<3000, 3000>>, <<3000, 1001>>}

RawValues == {85, 250}

TileFiles ==
    [shape : TileShapes, raw : [Pixels -> RawValues], cp : [Pixels -> {0, 1}],
     ndsi_ok : BOOLEAN, cp_mode : {"present", "absent", "error"}]

InShape(pixel, shape) ==
    0 <= pixel[1] /\ pixel[1] < shape[1] /\ 0 <= pixel[2] /\ pixel[2] < shape[2]

extract_pixel_values(hdf, pixels) ==
    IF ~hdf.ndsi_ok THEN [i \in 1..Len(pixels) |-> None]
    ELSE [i \in 1..Len(pixels) |->
             IF InShape(pixels[i], hdf.shape) THEN hdf.raw[pixels[i]] ELSE None]

get_cloud_persistence_value(hdf, pixels) ==
    IF hdf.cp_mode # "present" THEN [i \in 1..Len(pixels) |-> 0]
    ELSE [i \in 1..Len(pixels) |->
             IF InShape(pixels[i], hdf.shape) THEN hdf.cp[pixels[i]] ELSE 0]

\* Sensitivity variant of CombineResults: one failed pixel fails the date.
CombineResults_AllOrNothing(pixels, pixel_values, cloud_persistence_values) ==
    [i \in 1..Len(pixels) |->
        <<pixels[i],
          IF \A j \in 1..Len(pixel_values) : pixel_values[j] # None
          THEN <<pixel_values[i], cloud_persistence_values[i]>>
          ELSE <<ERROR_OTHER, 0>>>>]

\* The loop of process_tile_date over the requested pixels.
CombineResults(pixels, pixel_values, cloud_persistence_values) ==
    [i \in 1..Len(pixels) |->
        LET value == IF i <= Len(pixel_values) THEN pixel_values[i] ELSE None
            cloud_persistence ==
                IF i <= Len(cloud_persistence_values)
                THEN cloud_persistence_values[i] ELSE 0
        IN  <<pixels[i],
              IF value # None THEN <<value, cloud_persistence>>
              ELSE <<ERROR_OTHER, 0>>>>]

WithFileCalls ==
    {[fn |-> "process_tile_date with file", hdf |-> h, pixels |-> ps,
      done |-> FALSE, ret |-> <<>>] : h \in TileFiles, ps \in PixelLists}

CallWithFile ==
    /\ call.fn = "process_tile_date with file"
    /\ ~call.done
    /\ call' = [call EXCEPT
                   !.done = TRUE,
                   !.ret = CombineResults(
                               call.pixels,
                               extract_pixel_values(call.hdf, call.pixels),
                               get_cloud_persistence_value(call.hdf, call.pixels))]
    /\ UNCHANGED <<now, max_workers, faults, files, pc, op, runVars, saveVars,
                   cleanupVars, rd>>

\* update_pixel_week called twice on one pixel, then load_pixel_data.
\* <<date, value, cloud_persistence>>: 2024-01-01, 2024-01-08, 2023-12-25.
WeekUpdates == {<<0, 85, 0>>, <<7, 92, 1>>, <<0 - 7, 85, 0>>}

UpdateCalls ==
    {[fn |-> "update_pixel_week", file |-> f, updates |-> <<a, b>>, n |-> 0,
      done |-> FALSE, ret |-> <<>>] :
        f \in {AbsentFile, CorruptFile}, a \in WeekUpdates, b \in WeekUpdates}

\* One successful update_pixel_week: load, set the week, save.
update_pixel_week(file, date, value, cloud_persistence) ==
    SavedFile(SetWeek(load_pixel_data(file), date, value, cloud_persistence))

CallUpdate ==
    /\ call.fn = "update_pixel_week"
    /\ call.n < Len(call.updates)
    /\ LET u == call.updates[call.n + 1]
       IN  call' = [call EXCEPT
                       !.file = update_pixel_week(call.file, u[1], u[2], u[3]),
                       !.n = @ + 1]
    /\ UNCHANGED <<now, max_workers, faults, files, pc, op, runVars, saveVars,
                   cleanupVars, rd>>

\* Dates written in a sequence of updates: Dec 31 2023, Jan 1, Dec 30 and
\* Dec 31 of the leap year 2024, Jan 1 2025.
YearEdgeDates == {0 - 1, 0, 364, 365, 366}

\* One write of the store: an update_pixel_week call (one update) or the merge
\* of process_tile for the pixel (the updates of two dates).
WriteOps ==
    {[kind |-> "update_pixel_week", updates |-> <<<<d, 85, 1>>>>] :
        d \in YearEdgeDates} \cup
    {[kind |-> "process_tile", updates |-> <<<<d, 85, 1>>, <<e, ERROR_OLD_MISSING, 0>>>>] :
        d \in YearEdgeDates, e \in YearEdgeDates}

WriteCalls ==
    {[fn |-> "update_pixel_week, process_tile", file |-> AbsentFile,
      ops |-> <<a, b>>, n |-> 0, written |-> <<>>] :
        a \in WriteOps, b \in WriteOps}

\* The next write of the sequence: load, apply its updates, save.
CallWrite ==
    /\ call.fn = "update_pixel_week, process_tile"
    /\ call.n < Len(call.ops)
    /\ LET o == call.ops[call.n + 1]
       IN  call' = [call EXCEPT
                       !.file = IF o.kind = "update_pixel_week"
                                THEN update_pixel_week(call.file, o.updates[1][1],
                                                       o.updates[1][2], o.updates[1][3])
                                ELSE SavedFile(ApplyUpdates(load_pixel_data(call.file),
                                                            o.updates)),
                       !.written = @ \o o.updates,
                       !.n = @ + 1]
    /\ UNCHANGED <<now, max_workers, faults, files, pc, op, runVars, saveVars,
                   cleanupVars, rd>>

CallLoad ==
    /\ call.fn = "update_pixel_week"
    /\ call.n = Len(call.updates)
    /\ ~call.done
    /\ call' = [call EXCEPT !.done = TRUE, !.ret = load_pixel_data(call.file)]
    /\ UNCHANGED <<now, max_workers, faults, files, pc, op, runVars, saveVars,
                   cleanupVars, rd>>

\* save_pixel_data followed by load_pixel_data of the same key.
Reversed(recs) == [i \in 1..Len(recs) |-> recs[Len(recs) + 1 - i]]

RoundTripEntries == GapEntries \cup {Reversed(e) : e \in GapEntries}

RoundTripCalls ==
    {[fn |-> "save_pixel_data, load_pixel_data", recs |-> e, done |-> FALSE,
      ret |-> <<>>] : e \in RoundTripEntries}

CallSaveLoad ==
    /\ call.fn = "save_pixel_data, load_pixel_data"
    /\ ~call.done
    /\ call' = [call EXCEPT !.done = TRUE,
                            !.ret = load_pixel_data(SavedFile(call.recs))]
    /\ UNCHANGED <<now, max_workers, faults, files, pc, op, runVars, saveVars,
                   cleanupVars, rd>>

\* ------------------------------------------------------------------------
\* The pixel store behind its two implementations: PixelCacheManager (one JSON
\* file per pixel) and SnowCoverSQLiteArchive (one row per pixel in a
\* SQLiteCache). The store object is kept in call: backend, the _initialized
\* flags of the archive and of its cache, rows (pixel -> stored content) and
\* last, the operation that just returned with the state it started from.
\* ------------------------------------------------------------------------
Backends == {"file", "sqlite"}

\* A stored value that parses as JSON but is not a list of year records.
BadShapeFile == [st |-> "badshape", text |-> <<>>]

StoreRec(year, v) == [year |-> year, data |-> <<GapCell(v), EmptyCell>>]

\* Lists handed to save_pixel_data: empty, one year, two years in either order.
StoreInputs ==
    {<<>>,
     <<StoreRec(EpochYear, 85)>>,
     <<StoreRec(EpochYear, 85), StoreRec(EpochYear + 1, ERROR_RECENT_MISSING)>>,
     <<StoreRec(EpochYear + 1, ERROR_RECENT_MISSING), StoreRec(EpochYear, 85)>>}

\* How a call ended: the exception it raised or "none", the kind of value it
\* returned with the value, and the rows it left.
Returned(kind, value, rows) ==
    [raised |-> "none", kind |-> kind, ret |-> value, rows |-> rows]

Raised(error, rows) ==
    [raised |-> error, kind |-> "none", ret |-> <<>>, rows |-> rows]

\* Sensitivity variant of SQLiteCache_get: a value that does not parse raises.
SQLiteCache_get_RaisesOnCorrupt(initialized, rows, k) ==
    IF ~initialized THEN Raised("Cache not initialized", rows)
    ELSE IF rows[k].st = "absent" THEN Returned("none", <<>>, rows)
    ELSE IF rows[k].st = "corrupt" THEN Raised("JSONDecodeError", rows)
    ELSE Returned(rows[k].st, rows[k].text, rows)

\* SQLiteCache.get with ttl_ms = 0 (the archive's ARCHIVE_TTL_MS): no row gives
\* None, a value that does not parse is deleted and gives None.
SQLiteCache_get(initialized, rows, k) ==
    IF ~initialized THEN Raised("Cache not initialized", rows)
    ELSE IF rows[k].st = "absent" THEN Returned("none", <<>>, rows)
    ELSE IF rows[k].st = "corrupt"
         THEN Returned("none", <<>>, [rows EXCEPT ![k] = AbsentFile])
    ELSE Returned(rows[k].st, rows[k].text, rows)

\* Sensitivity variant of SQLiteCache_set: no check of _initialized.
SQLiteCache_set_Unchecked(initialized, rows, k, value) ==
    Returned("none", <<>>, [rows EXCEPT ![k] = [st |-> "ok", text |-> json_dump(value)]])

\* SQLiteCache.set: INSERT OR REPLACE of json.dumps(value).
SQLiteCache_set(initialized, rows, k, value) ==
    IF ~initialized THEN Raised("Cache not initialized", rows)
    ELSE Returned("none", <<>>,
                  [rows EXCEPT ![k] = [st |-> "ok", text |-> json_dump(value)]])

SQLiteCache_delete(initialized, rows, k) ==
    IF ~initialized THEN Raised("Cache not initialized", rows)
    ELSE Returned("none", <<>>, [rows EXCEPT ![k] = AbsentFile])

SQLiteCache_clear(initialized, rows) ==
    IF ~initialized THEN Raised("Cache not initialized", rows)
    ELSE Returned("none", <<>>, [p \in Pixels |-> AbsentFile])

SQLiteCache_size(initialized, rows) ==
    IF ~initialized THEN Raised("Cache not initialized", rows)
    ELSE Returned("int", <<Cardinality({p \in Pixels : rows[p].st # "absent"})>>, rows)

\* SnowCoverSQLiteArchive.load_pixel_data: the parsed value converted to year
\* records and sorted by year; a value of another shape is deleted.
Archive_load_pixel_data(initialized, cache_initialized, rows, k) ==
    IF ~initialized THEN Raised("Archive not initialized", rows)
    ELSE LET archived_data == SQLiteCache_get(cache_initialized, rows, k)
         IN  IF archived_data.raised # "none" THEN archived_data
             ELSE IF archived_data.kind = "none"
                  THEN Returned("list", <<>>, archived_data.rows)
             ELSE IF archived_data.kind = "badshape"
                  THEN Returned("list", <<>>,
                                SQLiteCache_delete(cache_initialized,
                                                   archived_data.rows, k).rows)
             ELSE Returned("list", SortByYear(json_load(archived_data.ret)),
                           archived_data.rows)

\* SnowCoverSQLiteArchive.save_pixel_data: the list is stored in the order given.
Archive_save_pixel_data(initialized, cache_initialized, rows, k, recs) ==
    IF ~initialized THEN Raised("Archive not initialized", rows)
    ELSE SQLiteCache_set(cache_initialized, rows, k, recs)

\* PixelCacheManager.load_pixel_data as a call on the store.
File_load_pixel_data(rows, k) == Returned("list", load_pixel_data(rows[k]), rows)

\* PixelCacheManager.save_pixel_data: it completes, or open() raises, or
\* json.dump raises after open() truncated the file; the exception is re-raised.
SaveOutcomes == {"saved", "open failed", "dump failed"}

File_save_pixel_data(rows, k, recs, outcome) ==
    CASE outcome = "saved" ->
            Returned("none", <<>>, [rows EXCEPT ![k] = SavedFile(recs)])
      [] outcome = "open failed" -> Raised("OSError", rows)
      [] outcome = "dump failed" -> Raised("OSError", [rows EXCEPT ![k] = CorruptFile])

NoRows == [p \in Pixels |-> AbsentFile]

\* A PixelCacheManager needs no initialize(); a SnowCoverSQLiteArchive is
\* constructed with _initialized = False in itself and in its cache.
StoreObject(backend) ==
    [fn |-> "store", backend |-> backend,
     initialized |-> backend = "file",
     cache_initialized |-> backend = "file",
     rows |-> NoRows,
     last |-> [op |-> "construct", key |-> <<>>, arg |-> <<>>,
               initialized |-> backend = "file",
               cache_initialized |-> backend = "file",
               rows |-> NoRows,
               out |-> Returned("none", <<>>, NoRows)]]

InitStore ==
    /\ Constructed
    /\ call \in {StoreObject(b) : b \in Backends}

\* The call op(key, arg) on the store ended as out.
StoreStep(name, k, arg, out) ==
    /\ call' = [call EXCEPT
                   !.rows = out.rows,
                   !.last = [op |-> name, key |-> k, arg |-> arg,
                             initialized |-> call.initialized,
                             cache_initialized |-> call.cache_initialized,
                             rows |-> call.rows,
                             out |-> out]]
    /\ UNCHANGED <<now, max_workers, faults, files, pc, op, runVars, saveVars,
                   cleanupVars, rd>>

\* SnowCoverSQLiteArchive.initialize, which initializes the cache.
StoreInitialize ==
    /\ call.backend = "sqlite"
    /\ call' = [call EXCEPT
                   !.initialized = TRUE,
                   !.cache_initialized = TRUE,
                   !.last = [op |-> "initialize", key |-> <<>>, arg |-> <<>>,
                             initialized |-> call.initialized,
                             cache_initialized |-> call.cache_initialized,
                             rows |-> call.rows,
                             out |-> Returned("none", <<>>, call.rows)]]
    /\ UNCHANGED <<now, max_workers, faults, files, pc, op, runVars, saveVars,
                   cleanupVars, rd>>

\* SnowCoverSQLiteArchive.close, which closes the cache if it was initialized.
StoreClose ==
    /\ call.backend = "sqlite"
    /\ call' = [call EXCEPT
                   !.initialized = FALSE,
                   !.cache_initialized = IF call.initialized THEN FALSE ELSE @,
                   !.last = [op |-> "close", key |-> <<>>, arg |-> <<>>,
                             initialized |-> call.initialized,
                             cache_initialized |-> call.cache_initialized,
                             rows |-> call.rows,
                             out |-> Returned("none", <<>>, call.rows)]]
    /\ UNCHANGED <<now, max_workers, faults, files, pc, op, runVars, saveVars,
                   cleanupVars, rd>>

StoreLoad(k) ==
    StoreStep("load_pixel_data", k, <<>>,
              IF call.backend = "file"
              THEN File_load_pixel_data(call.rows, k)
              ELSE Archive_load_pixel_data(call.initialized, call.cache_initialized,
                                           call.rows, k))

StoreSave(k, recs, outcome) ==
    /\ call.backend = "sqlite" => outcome = "saved"
    /\ StoreStep("save_pixel_data", k, recs,
                 IF call.backend = "file"
                 THEN File_save_pixel_data(call.rows, k, recs, outcome)
                 ELSE Archive_save_pixel_data(call.initialized, call.cache_initialized,
                                              call.rows, k, recs))

\* Calls made on the archive's SQLiteCache itself.
CacheGet(k) ==
    /\ call.backend = "sqlite"
    /\ StoreStep("get", k, <<>>, SQLiteCache_get(call.cache_initialized, call.rows, k))

CacheSet(k, value) ==
    /\ call.backend = "sqlite"
    /\ StoreStep("set", k, value,
                 SQLiteCache_set(call.cache_initialized, call.rows, k, value))

CacheDelete(k) ==
    /\ call.backend = "sqlite"
    /\ StoreStep("delete", k, <<>>,
                 SQLiteCache_delete(call.cache_initialized, call.rows, k))

CacheClear ==
    /\ call.backend = "sqlite"
    /\ StoreStep("clear", <<>>, <<>>, SQLiteCache_clear(call.cache_initialized, call.rows))

CacheSize ==
    /\ call.backend = "sqlite"
    /\ StoreStep("size", <<>>, <<>>, SQLiteCache_size(call.cache_initialized, call.rows))

\* Another writer of the same file or database leaves a value that does not
\* parse, or one that parses to something else than a list of year records.
StoreDamaged(k, content) ==
    /\ call.rows[k].st # "absent"
    /\ call' = [call EXCEPT
                   !.rows = [call.rows EXCEPT ![k] = content],
                   !.last = [op |-> "damaged", key |-> k, arg |-> <<>>,
                             initialized |-> call.initialized,
                             cache_initialized |-> call.cache_initialized,
                             rows |-> call.rows,
                             out |-> Returned("none", <<>>,
                                              [call.rows EXCEPT ![k] = content])]]
    /\ UNCHANGED <<now, max_workers, faults, files, pc, op, runVars, saveVars,
                   cleanupVars, rd>>

NextStore ==
    \/ StoreInitialize
    \/ StoreClose
    \/ \E k \in Pixels : StoreLoad(k)
    \/ \E k \in Pixels, e \in StoreInputs, o \in SaveOutcomes : StoreSave(k, e, o)
    \/ \E k \in Pixels : CacheGet(k)
    \/ \E k \in Pixels, e \in StoreInputs : CacheSet(k, e)
    \/ \E k \in Pixels : CacheDelete(k)
    \/ CacheClear
    \/ CacheSize
    \/ \E k \in Pixels, c \in {CorruptFile, BadShapeFile} : StoreDamaged(k, c)

SpecStore == InitStore /\ [][NextStore]_vars

\* ------------------------------------------------------------------------
\* SQLiteCache with its time-to-live: the cache object is kept in call with its
\* ttl_ms, the clock in milliseconds, rows (key -> value text and timestamp),
\* stored (key -> the value of the last set that no set, delete or clear of
\* the key followed) and last, the call that just returned.
\* ------------------------------------------------------------------------
\* ttl_ms of a cache that expires its entries, next to ARCHIVE_TTL_MS.
TtlMs == 2

MaxClockMs == 4

ARCHIVE_TTL_MS == 0

NoRow == [st |-> "absent", text |-> <<>>, timestamp |-> 0]

NotStored == <<>>

\* Sensitivity variant of Expired: ttl_ms = 0 is a time-to-live of no time.
Expired_ZeroIsATtl(ttl_ms, time_ms, timestamp) == time_ms - timestamp > ttl_ms

\* self.ttl_ms > 0 and (time.time() * 1000) - timestamp > self.ttl_ms
Expired(ttl_ms, time_ms, timestamp) == ttl_ms > 0 /\ time_ms - timestamp > ttl_ms

\* SQLiteCache.get: an expired row is deleted and gives None, a row whose
\* value does not parse too; otherwise json.loads of the value.
SQLiteCache_get_ttl(initialized, ttl_ms, time_ms, rows, k) ==
    IF ~initialized THEN Raised("Cache not initialized", rows)
    ELSE IF rows[k].st = "absent" THEN Returned("none", <<>>, rows)
    ELSE IF Expired(ttl_ms, time_ms, rows[k].timestamp)
         THEN Returned("none", <<>>, [rows EXCEPT ![k] = NoRow])
    ELSE IF rows[k].st = "corrupt"
         THEN Returned("none", <<>>, [rows EXCEPT ![k] = NoRow])
    ELSE Returned("value", json_load(rows[k].text), rows)

\* SQLiteCache.set: the row is replaced, its timestamp is the time of the call.
SQLiteCache_set_ttl(initialized, time_ms, rows, k, value) ==
    IF ~initialized THEN Raised("Cache not initialized", rows)
    ELSE Returned("none", <<>>,
                  [rows EXCEPT ![k] = [st |-> "ok", text |-> json_dump(value),
                                       timestamp |-> time_ms]])

SQLiteCache_delete_ttl(initialized, rows, k) ==
    IF ~initialized THEN Raised("Cache not initialized", rows)
    ELSE Returned("none", <<>>, [rows EXCEPT ![k] = NoRow])

SQLiteCache_clear_ttl(initialized, rows) ==
    IF ~initialized THEN Raised("Cache not initialized", rows)
    ELSE Returned("none", <<>>, [p \in Pixels |-> NoRow])

\* SQLiteCache.cleanup: 0 without a time-to-live, otherwise the rows older
\* than the cutoff are deleted and counted.
SQLiteCache_cleanup(initialized, ttl_ms, time_ms, rows) ==
    IF ~initialized \/ ttl_ms <= 0 THEN Returned("int", 0, rows)
    ELSE LET cutoff_time == time_ms - ttl_ms
             old == {p \in Pixels : rows[p].st # "absent"
                                    /\ rows[p].timestamp < cutoff_time}
         IN  Returned("int", Cardinality(old),
                      [p \in Pixels |-> IF p \in old THEN NoRow ELSE rows[p]])

CacheObject(ttl_ms) ==
    [fn |-> "cache", ttl_ms |-> ttl_ms, initialized |-> FALSE, time_ms |-> 0,
     rows |-> [p \in Pixels |-> NoRow],
     stored |-> [p \in Pixels |-> NotStored],
     last |-> [op |-> "construct", key |-> <<>>, initialized |-> FALSE,
               time_ms |-> 0, rows |-> [p \in Pixels |-> NoRow],
               stored |-> [p \in Pixels |-> NotStored],
               out |-> Returned("none", <<>>, [p \in Pixels |-> NoRow])]]

InitTtl ==
    /\ Constructed
    /\ call \in {CacheObject(ttl_ms) : ttl_ms \in {ARCHIVE_TTL_MS, TtlMs}}

\* The call op(key) on the cache ended as out and left stored as given.
TtlStep(name, k, out, stored) ==
    /\ call' = [call EXCEPT
                   !.rows = out.rows,
                   !.stored = stored,
                   !.last = [op |-> name, key |-> k,
                             initialized |-> call.initialized,
                             time_ms |-> call.time_ms,
                             rows |-> call.rows, stored |-> call.stored,
                             out |-> out]]
    /\ UNCHANGED <<now, max_workers, faults, files, pc, op, runVars, saveVars,
                   cleanupVars, rd>>

TtlInitialize ==
    /\ ~call.initialized
    /\ call' = [call EXCEPT
                   !.initialized = TRUE,
                   !.last = [op |-> "initialize", key |-> <<>>,
                             initialized |-> call.initialized,
                             time_ms |-> call.time_ms,
                             rows |-> call.rows, stored |-> call.stored,
                             out |-> Returned("none", <<>>, call.rows)]]
    /\ UNCHANGED <<now, max_workers, faults, files, pc, op, runVars, saveVars,
                   cleanupVars, rd>>

\* Time passes between two calls.
TtlTimePasses ==
    /\ call.time_ms < MaxClockMs
    /\ call' = [call EXCEPT
                   !.time_ms = @ + 1,
                   !.last = [op |-> "time passes", key |-> <<>>,
                             initialized |-> call.initialized,
                             time_ms |-> call.time_ms,
                             rows |-> call.rows, stored |-> call.stored,
                             out |-> Returned("none", <<>>, call.rows)]]
    /\ UNCHANGED <<now, max_workers, faults, files, pc, op, runVars, saveVars,
                   cleanupVars, rd>>

TtlGet(k) ==
    TtlStep("get", k,
            SQLiteCache_get_ttl(call.initialized, call.ttl_ms, call.time_ms,
                                call.rows, k),
            call.stored)

TtlSet(k, value) ==
    LET out == SQLiteCache_set_ttl(call.initialized, call.time_ms, call.rows, k, value)
    IN  TtlStep("set", k, out,
                IF out.raised = "none" THEN [call.stored EXCEPT ![k] = <<value>>]
                ELSE call.stored)

TtlDelete(k) ==
    LET out == SQLiteCache_delete_ttl(call.initialized, call.rows, k)
    IN  TtlStep("delete", k, out,
                IF out.raised = "none" THEN [call.stored EXCEPT ![k] = NotStored]
                ELSE call.stored)

TtlClear ==
    LET out == SQLiteCache_clear_ttl(call.initialized, call.rows)
    IN  TtlStep("clear", <<>>, out,
                IF out.raised = "none" THEN [p \in Pixels |-> NotStored]
                ELSE call.stored)

TtlCleanup ==
    TtlStep("cleanup", <<>>,
            SQLiteCache_cleanup(call.initialized, call.ttl_ms, call.time_ms, call.rows),
            call.stored)

NextTtl ==
    \/ TtlInitialize
    \/ TtlTimePasses
    \/ \E k \in Pixels : TtlGet(k)
    \/ \E k \in Pixels, e \in StoreInputs : TtlSet(k, e)
    \/ \E k \in Pixels : TtlDelete(k)
    \/ TtlClear
    \/ TtlCleanup

SpecTtl == InitTtl /\ [][NextTtl]_vars

\* ------------------------------------------------------------------------
\* Gap detection of the archive, and the calls of the pure functions
\* ------------------------------------------------------------------------
\* existing_data.get(year, []) of the archive's gap detection: the week list
\* of the last record of the year.
ArchiveYearData(recs, year) ==
    LET idx == {i \in 1..Len(recs) : recs[i].year = year}
    IN  IF idx = {} THEN <<>>
        ELSE recs[CHOOSE i \in idx : \A j \in idx : j <= i].data

\* The while loop of SnowCoverSQLiteArchive.get_missing_weeks_for_pixel: weekly
\* steps from start_date, the week list padded up to the week index, a week
\* missing when its value is None.
ArchiveMissingWeeksFrom(recs, current_date, end) ==
    LET steps == IF current_date > end THEN 0
                 ELSE (end - current_date) \div 7 + 1
        visited == [k \in 1..steps |->
                       <<current_date + 7 * (k - 1),
                         calculate_week_index(current_date + 7 * (k - 1),
                                              YearOf(current_date + 7 * (k - 1)))>>]
    IN  SelectSeq(visited,
                  LAMBDA w : LET year_data == PadTo(ArchiveYearData(recs, YearOf(w[1])),
                                                    w[2] + 1)
                             IN  year_data[w[2] + 1][1] = None)

\* The archive is initialized and holds the records under the pixel's key.
Archive_get_missing_weeks_for_pixel(recs, start, end) ==
    LET rows == [p \in Pixels |-> [st |-> "ok", text |-> json_dump(recs)]]
        loaded == Archive_load_pixel_data(TRUE, TRUE, rows, <<1500, 1000>>)
    IN  ArchiveMissingWeeksFrom(loaded.ret, start, end)

BothStoresCalls ==
    {[fn |-> "get_missing_weeks_for_pixel, both stores", recs |-> e, start |-> w[1],
      end |-> w[2], done |-> FALSE, ret |-> <<>>, archive_ret |-> <<>>] :
        e \in GapEntries, w \in GapWindows}

CallBothStores ==
    /\ call.fn = "get_missing_weeks_for_pixel, both stores"
    /\ ~call.done
    /\ call' = [call EXCEPT
                   !.done = TRUE,
                   !.ret = get_missing_weeks_for_pixel(JsonFile(call.recs),
                                                       call.start, call.end),
                   !.archive_ret = Archive_get_missing_weeks_for_pixel(
                                       call.recs, call.start, call.end)]
    /\ UNCHANGED <<now, max_workers, faults, files, pc, op, runVars, saveVars,
                   cleanupVars, rd>>

\* The grid of constants.py, lengths in whole metres: TILE_SIZE_METERS
\* (1111950.519667) and the half extents GLOBAL_WIDTH / 2 (20015109.354) and
\* GLOBAL_HEIGHT / 2 (10007554.677) are taken to the nearest metre.
PIXEL_SIZE == 375
TILE_SIZE_METERS == 1111951
PIXELS_PER_TILE == 3000
GLOBAL_WIDTH == 20015109 * 2
GLOBAL_HEIGHT == 10007555 * 2
MaxHTile == 35
MaxVTile == 17

\* Sensitivity variant of PyInt: the quotient is rounded up.
PyInt_Ceiling(a, b) == 0 - ((0 - a) \div b)

\* int(a / b) for b > 0: the quotient truncated toward zero.
PyInt(a, b) == IF a >= 0 THEN a \div b ELSE 0 - ((0 - a) \div b)

\* Sensitivity variant of Clamp: only the upper limit is applied.
Clamp_UpperOnly(lo, hi, v) == Min(hi, v)

\* max(lo, min(hi, v))
Clamp(lo, hi, v) == Max(lo, Min(hi, v))

sinusoidal_to_tile_and_pixel(x, y) ==
    LET h_tile == Clamp(0, MaxHTile, PyInt(x + GLOBAL_WIDTH \div 2, TILE_SIZE_METERS))
        v_tile == Clamp(0, MaxVTile, PyInt(GLOBAL_HEIGHT \div 2 - y, TILE_SIZE_METERS))
        tile_left == h_tile * TILE_SIZE_METERS - GLOBAL_WIDTH \div 2
        tile_top == GLOBAL_HEIGHT \div 2 - v_tile * TILE_SIZE_METERS
        col == Clamp(0, PIXELS_PER_TILE - 1, PyInt(x - tile_left, PIXEL_SIZE))
        row == Clamp(0, PIXELS_PER_TILE - 1, PyInt(tile_top - y, PIXEL_SIZE))
    IN  [h_tile |-> h_tile, v_tile |-> v_tile, pixel_col |-> col, pixel_row |-> row,
         sinusoidal_x |-> x, sinusoidal_y |-> y]

\* Offsets from an edge of the global extent, in metres: far outside, just
\* outside, on the edge, just inside, one pixel and one tile inside.
EdgeOffsets == {0 - 3 * TILE_SIZE_METERS, 0 - 500, 0 - 1, 0, 1, PIXEL_SIZE,
                TILE_SIZE_METERS - 1, TILE_SIZE_METERS}

\* x from west of the grid to east of it, y from north of it to south of it.
XInputs ==
    {d - GLOBAL_WIDTH \div 2 : d \in EdgeOffsets} \cup {0}
        \cup {GLOBAL_WIDTH \div 2 - d : d \in EdgeOffsets}

YInputs ==
    {GLOBAL_HEIGHT \div 2 - d : d \in EdgeOffsets} \cup {0, 8000000, 0 - 8000000}
        \cup {d - GLOBAL_HEIGHT \div 2 : d \in EdgeOffsets}

PointCalls ==
    {[fn |-> "sinusoidal_to_tile_and_pixel", x |-> x, y |-> y, done |-> FALSE,
      ret |-> <<>>] : x \in XInputs, y \in YInputs}

CallPoint ==
    /\ call.fn = "sinusoidal_to_tile_and_pixel"
    /\ ~call.done
    /\ call' = [call EXCEPT !.done = TRUE,
                            !.ret = sinusoidal_to_tile_and_pixel(call.x, call.y)]
    /\ UNCHANGED <<now, max_workers, faults, files, pc, op, runVars, saveVars,
                   cleanupVars, rd>>

\* geometry_transformed, the geometry after the projection to sinusoidal
\* metres, as the rectangle <<minx, miny, maxx, maxy>> it covers: a point, a
\* horizontal segment or a square.
GeometrySizes == {<<0, 0>>, <<400, 0>>, <<400, 400>>}

\* South-west corners: west of the grid, just west of it, on a tile boundary
\* inside it, at the origin, east of the grid; and likewise from south to north.
GeometryWest ==
    {0 - GLOBAL_WIDTH \div 2 - 3 * TILE_SIZE_METERS, 0 - GLOBAL_WIDTH \div 2 - 200,
     TILE_SIZE_METERS - GLOBAL_WIDTH \div 2 - 100, 0,
     GLOBAL_WIDTH \div 2 + 2 * TILE_SIZE_METERS}

GeometrySouth ==
    {0 - GLOBAL_HEIGHT \div 2 - 3 * TILE_SIZE_METERS,
     GLOBAL_HEIGHT \div 2 - TILE_SIZE_METERS - 100, 0,
     GLOBAL_HEIGHT \div 2 + 2 * TILE_SIZE_METERS}

GeometryInputs ==
    {<<x, y, x + sz[1], y + sz[2]>> : x \in GeometryWest, y \in GeometrySouth,
                                      sz \in GeometrySizes}

\* The pixel polygon of (h_tile, v_tile, row, col) touches the rectangle.
PixelIntersects(g, h_tile, v_tile, row, col) ==
    LET tile_left == h_tile * TILE_SIZE_METERS - GLOBAL_WIDTH \div 2
        tile_top == GLOBAL_HEIGHT \div 2 - v_tile * TILE_SIZE_METERS
        left == tile_left + col * PIXEL_SIZE
        top == tile_top - row * PIXEL_SIZE
    IN  /\ g[1] <= left + PIXEL_SIZE
        /\ g[3] >= left
        /\ g[2] <= top
        /\ g[4] >= top - PIXEL_SIZE

\* The pixels the nested loops append: for every tile between the tiles of the
\* top-left and the bottom-right corner, the pixels of the tested range whose
\* polygon intersects the geometry.
IntersectingPixels(g) ==
    LET min_info == sinusoidal_to_tile_and_pixel(g[1], g[4])
        max_info == sinusoidal_to_tile_and_pixel(g[3], g[2])
    IN  UNION {
          LET tile_left == h_tile * TILE_SIZE_METERS - GLOBAL_WIDTH \div 2
              tile_top == GLOBAL_HEIGHT \div 2 - v_tile * TILE_SIZE_METERS
              test_min_col == Max(0, PyInt(g[1] - tile_left, PIXEL_SIZE) - 1)
              test_max_col == Min(PIXELS_PER_TILE - 1,
                                  PyInt(g[3] - tile_left, PIXEL_SIZE) + 1)
              test_min_row == Max(0, PyInt(tile_top - g[4], PIXEL_SIZE) - 1)
              test_max_row == Min(PIXELS_PER_TILE - 1,
                                  PyInt(tile_top - g[2], PIXEL_SIZE) + 1)
          IN  {c \in {<<h_tile, v_tile, row, col>> :
                          row \in test_min_row..test_max_row,
                          col \in test_min_col..test_max_col} :
                  PixelIntersects(g, c[1], c[2], c[3], c[4])}
          : h_tile \in min_info.h_tile..max_info.h_tile,
            v_tile \in min_info.v_tile..max_info.v_tile}

\* Loop order: by h_tile, then v_tile, then row, then col.
CellBefore(a, b) ==
    \E i \in 1..4 : a[i] < b[i] /\ \A j \in 1..(i - 1) : a[j] = b[j]

RECURSIVE CellSeq(_)
CellSeq(S) ==
    IF S = {} THEN <<>>
    ELSE LET first == CHOOSE a \in S : \A b \in S \ {a} : CellBefore(a, b)
         IN  <<first>> \o CellSeq(S \ {first})

\* Sensitivity variant of CentroidFallback: no pixel is added.
CentroidFallback_None(g) == <<>>

\* The pixel of the centroid, appended when no pixel was found.
CentroidFallback(g) ==
    LET centroid_info == sinusoidal_to_tile_and_pixel((g[1] + g[3]) \div 2,
                                                      (g[2] + g[4]) \div 2)
    IN  <<<<centroid_info.h_tile, centroid_info.v_tile,
            centroid_info.pixel_row, centroid_info.pixel_col>>>>

get_geometry_pixel_coordinates(g) ==
    LET pixel_coords == CellSeq(IntersectingPixels(g))
    IN  IF pixel_coords = <<>> THEN CentroidFallback(g) ELSE pixel_coords

GeometryCalls ==
    {[fn |-> "get_geometry_pixel_coordinates", geometry |-> g, done |-> FALSE,
      ret |-> <<>>] : g \in GeometryInputs}

CallGeometry ==
    /\ call.fn = "get_geometry_pixel_coordinates"
    /\ ~call.done
    /\ call' = [call EXCEPT !.done = TRUE,
                            !.ret = get_geometry_pixel_coordinates(call.geometry)]
    /\ UNCHANGED <<now, max_workers, faults, files, pc, op, runVars, saveVars,
                   cleanupVars, rd>>

\* tile_name = f'h{h_tile:02d}v{v_tile:02d}': two digits each, zero-padded.

TileName(h_tile, v_tile) ==
    <<"h", h_tile \div 10, h_tile % 10, "v", v_tile \div 10, v_tile % 10>>

\* Sensitivity variant of SetAdd: the element is appended even when present.
SetAdd_Append(seq, e) == Append(seq, e)

\* unique_pixels.add(e): a set kept as the sequence of its elements in the
\* order they were first added.
SetAdd(seq, e) ==
    IF \E i \in 1..Len(seq) : seq[i] = e THEN seq ELSE Append(seq, e)

\* The for loop that adds (tile, pixel_row, pixel_col) of every found pixel.
RECURSIVE AddPixels(_, _)
AddPixels(unique_pixels, all_pixel_coords) ==
    IF all_pixel_coords = <<>> THEN unique_pixels
    ELSE LET pixel == Head(all_pixel_coords)
         IN  AddPixels(SetAdd(unique_pixels,
                              <<TileName(pixel[1], pixel[2]), pixel[3], pixel[4]>>),
                       Tail(all_pixel_coords))

\* all_pixel_coords of one feature: the pixels of the geometry, of every part
\* of a multi-part geometry in turn, nothing for another geometry type.
FeaturePixelCoords(feature) ==
    IF feature.geom_type \in {"Polygon", "LineString"}
    THEN get_geometry_pixel_coordinates(feature.geoms[1])
    ELSE IF feature.geom_type \in {"MultiPolygon", "MultiLineString"}
    THEN ConcatAll([i \in 1..Len(feature.geoms) |->
                       get_geometry_pixel_coordinates(feature.geoms[i])])
    ELSE <<>>

RECURSIVE ExtractFrom(_, _)
ExtractFrom(unique_pixels, features) ==
    IF features = <<>> THEN unique_pixels
    ELSE ExtractFrom(AddPixels(unique_pixels, FeaturePixelCoords(Head(features))),
                     Tail(features))

extract_unique_pixels_from_geojson(features) == ExtractFrom(<<>>, features)

\* Rectangles of the features: a 400 m square at the origin, a line along its
\* southern edge, and a line across the boundary of tiles h00 and h01.
SquareAtOrigin == <<0, 0, 400, 400>>

LineAtOrigin == <<0, 0, 400, 0>>

LineAcrossTiles ==
    <<TILE_SIZE_METERS - GLOBAL_WIDTH \div 2 - 100, 0,
      TILE_SIZE_METERS - GLOBAL_WIDTH \div 2 + 300, 0>>

Features ==
    {[geom_type |-> "Polygon", geoms |-> <<SquareAtOrigin>>],
     [geom_type |-> "LineString", geoms |-> <<LineAtOrigin>>],
     [geom_type |-> "LineString", geoms |-> <<LineAcrossTiles>>],
     [geom_type |-> "MultiPolygon", geoms |-> <<SquareAtOrigin, SquareAtOrigin>>],
     [geom_type |-> "MultiLineString", geoms |-> <<LineAtOrigin, LineAcrossTiles>>],
     [geom_type |-> "Point", geoms |-> <<SquareAtOrigin>>]}

ExtractCalls ==
    {[fn |-> "extract_unique_pixels_from_geojson", features |-> fs, done |-> FALSE,
      ret |-> <<>>] :
        fs \in {<<>>} \cup {<<f>> : f \in Features}
               \cup {<<f1, f2>> : f1 \in Features, f2 \in Features}}

CallExtract ==
    /\ call.fn = "extract_unique_pixels_from_geojson"
    /\ ~call.done
    /\ call' = [call EXCEPT !.done = TRUE,
                            !.ret = extract_unique_pixels_from_geojson(call.features)]
    /\ UNCHANGED <<now, max_workers, faults, files, pc, op, runVars, saveVars,
                   cleanupVars, rd>>
\* Step 4 of process_tile when every save succeeds: the files after the batch
\* update of all_results, given in the order the results were collected.
MergedFiles(fs, results) ==
    LET groups == GroupByPixel(results)
    IN  [p \in Pixels |->
            IF \E i \in 1..Len(groups) : groups[i][1] = p
            THEN LET i == CHOOSE j \in 1..Len(groups) : groups[j][1] = p
                 IN  SavedFile(ApplyUpdates(load_pixel_data(fs[p]), groups[i][2]))
            ELSE fs[p]]

\* Stores process_tile starts from: pixel 1500,1000 absent, with a record of
\* the year, or unreadable; pixel 1500,1001 absent.
CompletionStores ==
    {[p \in Pixels |-> IF p = <<1500, 1000>> THEN f ELSE AbsentFile] :
        f \in {AbsentFile, CorruptFile,
               JsonFile(<<YearRec(EpochYear, ERROR_RECENT_MISSING, ERROR_RECENT_MISSING,
                                  None)>>)}}

\* Results of three dates, by date: Dec 31 of the year before the epoch year
\* for both pixels, Jan 1 for the first pixel, Jan 8 for both.
CompletionResults ==
    {<<<<0 - 1, <<<<<<1500, 1000>>, a>>, <<<<1500, 1001>>, b>>>>>>,
       <<0, <<<<<<1500, 1000>>, b>>>>>>,
       <<7, <<<<<<1500, 1001>>, a>>, <<<<1500, 1000>>, c>>>>>>>> :
        a \in {<<85, 1>>, <<ERROR_OLD_MISSING, 0>>},
        b \in {<<40, 0>>, <<ERROR_OTHER, 0>>},
        c \in {<<85, 1>>, <<ERROR_RECENT_MISSING, 0>>}}

\* as_completed: the orders in which three futures can complete.
CompletionOrders ==
    {o \in [1..3 -> 1..3] : \A i \in 1..3 : \A j \in 1..3 : o[i] = o[j] => i = j}

CompletionCalls ==
    {[fn |-> "process_tile, completion order", store |-> s, results |-> r,
      order |-> o, done |-> FALSE, ret |-> s] :
        s \in CompletionStores, r \in CompletionResults, o \in CompletionOrders}

\* all_results is filled in completion order and merged into the store.
CallCompletion ==
    /\ call.fn = "process_tile, completion order"
    /\ ~call.done
    /\ call' = [call EXCEPT
                   !.done = TRUE,
                   !.ret = MergedFiles(call.store,
                                       [i \in 1..3 |-> call.results[call.order[i]]])]
    /\ UNCHANGED <<now, max_workers, faults, files, pc, op, runVars, saveVars,
                   cleanupVars, rd>>
\* update_pixel_week(key, date, value, cloud_persistence) on the store, the
\* save succeeding: only the file of the key is written.
UpdateStore(fs, k, date, value, cloud_persistence) ==
    [fs EXCEPT ![k] = update_pixel_week(fs[k], date, value, cloud_persistence)]

\* Readable entries: a full record of the epoch year, records of two years, a
\* record whose week list has two slots.
FrameEntries ==
    {JsonFile(<<YearRec(EpochYear, 85, ERROR_RECENT_MISSING, ERROR_OLD_MISSING)>>),
     JsonFile(<<YearRec(EpochYear - 1, None, 40, 85),
                YearRec(EpochYear, ERROR_OTHER, None, None)>>),
     JsonFile(<<[year |-> EpochYear, data |-> <<GapCell(85), GapCell(40)>>]>>)}

\* Dec 31 of the year before, Jan 1, Jan 8, Jan 15 and Dec 30 of the epoch
\* year, Jan 1 of the year after.
FrameDates == {0 - 1, 0, 7, 14, 364, 366}

FrameCalls ==
    {[fn |-> "update_pixel_week, store", store |-> s, key |-> k, date |-> d,
      value |-> v[1], cloud_persistence |-> v[2], done |-> FALSE, ret |-> s] :
        s \in [Pixels -> FrameEntries], k \in Pixels, d \in FrameDates,
        v \in {<<92, 1>>, <<ERROR_RECENT_MISSING, 0>>}}

CallUpdateStore ==
    /\ call.fn = "update_pixel_week, store"
    /\ ~call.done
    /\ call' = [call EXCEPT
                   !.done = TRUE,
                   !.ret = UpdateStore(call.store, call.key, call.date, call.value,
                                       call.cloud_persistence)]
    /\ UNCHANGED <<now, max_workers, faults, files, pc, op, runVars, saveVars,
                   cleanupVars, rd>>
InitPure ==
    /\ Constructed
    /\ call \in GapCalls \cup NoFileCalls \cup WithFileCalls \cup UpdateCalls
                \cup RoundTripCalls \cup BothStoresCalls \cup PointCalls
                \cup GeometryCalls \cup WriteCalls \cup ExtractCalls
                \cup CompletionCalls \cup FrameCalls

CallGaps ==
    /\ call.fn = "get_missing_weeks_for_pixel"
    /\ ~call.done
    /\ call' = [call EXCEPT
                   !.done = TRUE,
                   !.ret = get_missing_weeks_for_pixel(JsonFile(call.recs),
                                                       call.start, call.end)]
    /\ UNCHANGED <<now, max_workers, faults, files, pc, op, runVars, saveVars,
                   cleanupVars, rd>>

CallNoFile ==
    /\ call.fn = "process_tile_date"
    /\ ~call.done
    /\ call' = [call EXCEPT
                   !.done = TRUE,
                   !.ret = NoFileResult(call.date, call.pixels, call.t)]
    /\ UNCHANGED <<now, max_workers, faults, files, pc, op, runVars, saveVars,
                   cleanupVars, rd>>

NextPure ==
    \/ CallGaps
    \/ CallNoFile
    \/ CallWithFile
    \/ CallUpdate
    \/ CallLoad
    \/ CallSaveLoad
    \/ CallBothStores
    \/ CallPoint
    \/ CallGeometry
    \/ CallWrite
    \/ CallExtract
    \/ CallCompletion
    \/ CallUpdateStore

SpecPure == InitPure /\ [][NextPure]_vars


\* ------------------------------------------------------------------------
\* Properties
\* ------------------------------------------------------------------------
\* The stored cell of a date: the week calculate_week_index gives it in the
\* record of its year, <<None, 0>> when there is none.
CellAt(data, date) ==
    LET y == YearOf(date)
        k == (date - Jan1(y)) \div 7
        idx == {i \in 1..Len(data) : data[i].year = y /\ k + 1 <= Len(data[i].data)}
    IN  IF idx = {} THEN EmptyCell
        ELSE data[CHOOSE i \in idx : \A j \in idx : i <= j].data[k + 1]

Stored(fs, p, date) == CellAt(load_pixel_data(fs[p]), date)

SeqRange(seq) == {seq[i] : i \in 1..Len(seq)}

\* Cells of the given pixels that are empty, unreadable or hold 400.
Unresolved(fs, pixels) ==
    {c \in SeqRange(pixels) \X WindowDates :
        Stored(fs, c[1], c[2])[1] \in {None, ERROR_RECENT_MISSING}}

\* The <<pixel, date>> cells the merge phase of the current run updates.
UpdatedCells ==
    UNION {{<<pixel_updates[i][1], pixel_updates[i][2][j][1]>> :
               j \in 1..Len(pixel_updates[i][2])} : i \in 1..Len(pixel_updates)}

\* C1 (as stated): a process_tile that directly repeats the previous one over
\* the same pixels returns updated_pixels = 0.
C1_SecondRunUpdatesNothing ==
    (pc = "return" /\ repeat) => stats.updated_pixels = 0

\* C1 (amended): a process_tile that directly repeats the previous one updates
\* exactly the cells the first run left empty, unreadable or at the retryable
\* code 400, one update each, and no cell left at an observation, 301 or 401;
\* updated_pixels is their number.
C1_SecondRunUpdatesUnresolved ==
    (pc = "return" /\ repeat) =>
        /\ UpdatedCells = Unresolved(start_files, pixels_arg)
        /\ stats.updated_pixels = Cardinality(Unresolved(start_files, pixels_arg))

C1_Witness ==
    /\ pc = "return"
    /\ repeat
    /\ stats.updated_pixels > 0
    /\ \E c \in SeqRange(pixels_arg) \X WindowDates : c \notin Unresolved(start_files, pixels_arg)

\* C2: get_missing_weeks_for_pixel reports every in-window week stored with
\* 400 and no in-window week stored with 301.
C2_RetryableReportedPermanentNot ==
    (call.fn = "get_missing_weeks_for_pixel" /\ call.done) =>
        \A i \in 1..Len(call.recs), k \in 0..(WEEKS_PER_YEAR - 1) :
            k < Len(call.recs[i].data) =>
            LET d == Jan1(call.recs[i].year) + 7 * k
                v == call.recs[i].data[k + 1][1]
            IN  (call.start <= d /\ d <= call.end) =>
                    /\ v = 400 => <<d, k>> \in SeqRange(call.ret)
                    /\ v = 301 => <<d, k>> \notin SeqRange(call.ret)

C2_Witness ==
    /\ call.fn = "get_missing_weeks_for_pixel"
    /\ call.done
    /\ \E i \in 1..Len(call.recs), k \in 0..1 :
          /\ call.recs[i].data[k + 1][1] = 400
          /\ call.recs[i].data[2 - k][1] = 301
          /\ call.start <= Jan1(call.recs[i].year)
          /\ Jan1(call.recs[i].year) + 7 <= call.end
          /\ <<Jan1(call.recs[i].year) + 7 * k, k>> \in SeqRange(call.ret)

\* C3: when process_tile returns, every cell that held an observation, 301 or
\* 401 when it began still holds the same value.
C3_TerminalCellsUntouched ==
    pc = "return" =>
        \A p \in Pixels, d \in WindowDates :
            Stored(start_files, p, d)[1] \notin {None, ERROR_RECENT_MISSING}
                => Stored(files, p, d) = Stored(start_files, p, d)

C5_ConcurrentLoadSeesWholeEntry ==
    (pc \in {"open", "dump"} /\ rd.key = key) =>
        rd.got \in {before, SortByYear(pixel_data)}

HasResult(p) ==
    \E i \in 1..Len(all_results) : \E j \in 1..Len(all_results[i][2]) :
        all_results[i][2][j][1] = p

\* C6: when process_tile returns, a pixel with at least one fetch result was
\* loaded once and saved once in the merge phase, a pixel with none never.
C6_OneLoadOneSavePerPixel ==
    pc = "return" =>
        \A p \in Pixels :
            /\ loads[p] = IF HasResult(p) THEN 1 ELSE 0
            /\ saves[p] = IF HasResult(p) THEN 1 ELSE 0

C6_Witness ==
    /\ pc = "return"
    /\ \E p \in Pixels : ~HasResult(p)
    /\ \E i \in 1..Len(pixel_updates) : Len(pixel_updates[i][2]) >= 2

\* C7: while process_tile merges or saves, every submitted fetch task has
\* completed and been collected; while tasks are outstanding nothing is saved.
C7_MergeAfterAllFetches ==
    /\ (op = "process_tile" /\ pc \in {"merge", "open", "dump"}) =>
           \A i \in 1..Len(futures) : futures[i].st = "collected"
    /\ pc = "fetch" => (files = start_files /\ saves = ZeroCount)

C7_Witness ==
    /\ op = "process_tile"
    /\ pc = "dump"
    /\ Len(futures) >= 2

\* C8: the executor holds exactly one task per date key of date_to_pixels,
\* each started at most once and exactly once by the time it is collected,
\* and never more than max_workers tasks run at a time.
C8_OneTaskPerDateWithinWorkerLimit ==
    /\ RunningCount <= max_workers
    /\ Len(futures) = Len(date_to_pixels)
    /\ \A i \in 1..Len(futures) :
          /\ futures[i].date = date_to_pixels[i][1]
          /\ futures[i].started = IF futures[i].st = "queued" THEN 0 ELSE 1
          /\ \A j \in 1..Len(futures) : futures[j].date = futures[i].date => j = i
    /\ (op = "process_tile" /\ pc # "fetch") =>
           \A i \in 1..Len(futures) : futures[i].st = "collected"

C8_Witness ==
    /\ pc = "fetch"
    /\ RunningCount = max_workers
    /\ \E i \in 1..Len(futures) : futures[i].st = "queued"

\* C9: what process_tile_dates_parallel returns has exactly one entry per
\* requested date, holding a <<value, cloud_persistence>> with an integer
\* value for exactly the pixels requested for that date.
C9_EveryDateEveryPixelHasResult ==
    (op = "process_tile" /\ pc \in {"merge", "open", "dump", "return"}) =>
        /\ Len(all_results) = Len(date_to_pixels)
        /\ \A i \in 1..Len(date_to_pixels) :
              \E j \in 1..Len(all_results) :
                  /\ all_results[j][1] = date_to_pixels[i][1]
                  /\ Len(all_results[j][2]) = Len(date_to_pixels[i][2])
                  /\ \A n \in 1..Len(date_to_pixels[i][2]) :
                        /\ all_results[j][2][n][1] = date_to_pixels[i][2][n]
                        /\ all_results[j][2][n][2][1] # None

C9_Witness ==
    /\ op = "process_tile"
    /\ pc = "merge"
    /\ \E i \in 1..Len(futures) : futures[i].outcome = "raise"
    /\ \E i \in 1..Len(futures) : futures[i].outcome = "nofile"

\* C10: without a tile file every requested pixel gets <<301, 0>> when the
\* date is strictly earlier than now minus 30 days and <<400, 0>> otherwise.
C10_NoFileCodeByAge ==
    (call.fn = "process_tile_date" /\ call.done) =>
        /\ Len(call.ret) = Len(call.pixels)
        /\ \A j \in 1..Len(call.pixels) :
              call.ret[j] =
                  <<call.pixels[j],
                    <<IF call.date + 30 < call.t THEN 301 ELSE 400, 0>>>>

C10_Witness ==
    /\ call.fn = "process_tile_date"
    /\ call.done
    /\ call.t = call.date + 30
    /\ \A j \in 1..Len(call.ret) : call.ret[j][2][1] = 400

\* C11: with the tile file obtained, process_tile_date records <<401, 0>> for
\* exactly the requested pixels whose extraction failed (outside the grid, or
\* the dataset unreadable) and the raw value for every other requested pixel.
C11_PartialExtractionFailure ==
    (call.fn = "process_tile_date with file" /\ call.done) =>
        /\ Len(call.ret) = Len(call.pixels)
        /\ \A j \in 1..Len(call.pixels) :
              LET p == call.pixels[j]
                  failed == \/ ~call.hdf.ndsi_ok
                            \/ p[1] >= call.hdf.shape[1]
                            \/ p[2] >= call.hdf.shape[2]
              IN  /\ call.ret[j][1] = p
                  /\ failed => call.ret[j][2] = <<401, 0>>
                  /\ ~failed => call.ret[j][2][1] = call.hdf.raw[p]

C11_Witness ==
    /\ call.fn = "process_tile_date with file"
    /\ call.done
    /\ Len(call.ret) = 2
    /\ call.ret[1][2][1] = 85
    /\ call.ret[2][2] = <<401, 0>>

\* C12: when process_tile returns, every save that raised was counted as one
\* error on top of the fetched error codes, and every pixel with results was
\* still loaded and saved once; the updates of every pixel whose save did not
\* raise are stored.
C12_FailedSaveCountedOthersSaved ==
    pc = "return" =>
        /\ stats.errors = CountErrors(all_results) + Cardinality(save_errors)
        /\ \A i \in 1..Len(pixel_updates) :
              LET p == pixel_updates[i][1]
                  updates == pixel_updates[i][2]
              IN  /\ loads[p] = 1
                  /\ saves[p] = 1
                  /\ p \notin save_errors =>
                        \A j \in 1..Len(updates) :
                            Stored(files, p, updates[j][1]) = <<updates[j][2], updates[j][3]>>

C12_Witness ==
    /\ pc = "return"
    /\ Len(pixel_updates) = 2
    /\ save_errors = {pixel_updates[1][1]}
    /\ Stored(files, pixel_updates[2][1], 7)[1] = 85

\* The pixels of the tiles run hands to process_tile.
ProcessedPixels ==
    UNION {SeqRange(call.tiles_to_process[t][2]) : t \in 1..Len(call.tiles_to_process)}

\* C13: run returns True only if no fetched value is an error code and no
\* save raised in any processed tile; when it returns False after errors,
\* every fetched update of a pixel whose save did not raise is stored.
C13_SuccessOnlyWithoutErrors ==
    (call.fn = "run" /\ call.st = "returned") =>
        LET errors == Cardinality({u \in call.fetched : u[3] \in {301, 400, 401}})
                          + Cardinality(call.failed)
        IN  /\ call.ret => errors = 0
            /\ call.ret => \A p \in ProcessedPixels, d \in WindowDates :
                               Stored(files, p, d)[1] \notin {None, 301, 400, 401}
            /\ (~call.ret /\ call.tiles_to_process # <<>>) => errors > 0
            /\ \A u \in call.fetched :
                  u[1] \notin call.failed => Stored(files, u[1], u[2]) = <<u[3], u[4]>>

C13_Witness ==
    /\ call.fn = "run"
    /\ call.st = "returned"
    /\ ~call.ret
    /\ call.failed # {}
    /\ \E u \in call.fetched :
          /\ u[1] \notin call.failed
          /\ u[3] = 85
          /\ Stored(files, u[1], u[2]) = <<85, 1>>

\* C14: in fill-cache mode run tracks exactly the pixel keys present in the
\* store, grouped by tile, and leaves none of their window weeks missing.
C14_FillCacheTracksStoredKeys ==
    (call.fn = "run" /\ call.st = "returned" /\ call.fill_cache_mode) =>
        /\ \A p \in Pixels :
              files[p].st # "absent" <=>
                  \E t \in 1..Len(call.pixels_by_tile) :
                      /\ call.pixels_by_tile[t][1] = RunTileOf[p]
                      /\ p \in SeqRange(call.pixels_by_tile[t][2])
        /\ \A p \in Pixels, d \in WindowDates :
              files[p].st # "absent" => Stored(files, p, d)[1] # None

\* The stored value of week k of year y in the records of a call, None when
\* there is no record of the year or no entry at the index.
RecValue(recs, y, k) ==
    IF \E i \in 1..Len(recs) : recs[i].year = y /\ k < Len(recs[i].data)
    THEN LET i == CHOOSE j \in 1..Len(recs) : recs[j].year = y
         IN  recs[i].data[k + 1][1]
    ELSE None

\* The days of Jan 1 of the three years the windows touch.
YearStarts == (2023 :> (0 - 365)) @@ (2024 :> 0) @@ (2025 :> 366)

ExpectedMissing(recs, start, end) ==
    {e \in {<<YearStarts[y] + 7 * k, k>> : y \in DOMAIN YearStarts, k \in 0..52} :
        /\ start <= e[1]
        /\ e[1] <= end
        /\ \E y \in DOMAIN YearStarts :
              /\ e[1] = YearStarts[y] + 7 * e[2]
              /\ RecValue(recs, y, e[2]) \in {None, 400}}

\* C15: get_missing_weeks_for_pixel returns, by ascending date, exactly the
\* pairs <<Jan 1 of Y + 7k, k>> inside the window whose cell has no yearly
\* record, no entry, a null value or 400; with weeks 0 and 1 of 2024 stored
\* and the window 2024-01-01..2024-02-01 these are the weeks 2, 3 and 4.
C15_MissingWeeksExactly ==
    (call.fn = "get_missing_weeks_for_pixel" /\ call.done) =>
        /\ SeqRange(call.ret) = ExpectedMissing(call.recs, call.start, call.end)
        /\ \A a \in 1..Len(call.ret), b \in 1..Len(call.ret) :
              a < b => call.ret[a][1] < call.ret[b][1]
        /\ (/\ call.recs = <<YearRec(2024, 85, 85, None)>>
            /\ call.start = 0
            /\ call.end = 31)
               => call.ret = <<<<14, 2>>, <<21, 3>>, <<28, 4>>>>

C15_Witness ==
    /\ call.fn = "get_missing_weeks_for_pixel"
    /\ call.done
    /\ call.recs = <<YearRec(2024, 85, 85, None)>>
    /\ call.start = 0
    /\ call.end = 31
    /\ Len(call.ret) = 3

\* C16: for a pixel with no stored data and the window Jan 1 to Dec 31 of a
\* year, get_missing_weeks_for_pixel returns the 53 slots of the year, index
\* k at position k for k = 0..52.
C16_EmptyPixelAllWeeks ==
    (/\ call.fn = "get_missing_weeks_for_pixel"
     /\ call.done
     /\ call.recs = <<>>
     /\ call.start \in {0 - 365, 0, 366}
     /\ call.end \in {call.start + 364, call.start + 365}) =>
        /\ Len(call.ret) = 53
        /\ \A k \in 0..52 : call.ret[k + 1] = <<call.start + 7 * k, k>>

C16_Witness ==
    /\ call.fn = "get_missing_weeks_for_pixel"
    /\ call.done
    /\ call.recs = <<>>
    /\ call.start = 0 - 365
    /\ call.end = 0 - 1
    /\ Len(call.ret) = 53

\* C17: from a pixel without data, update_pixel_week(2024-01-01, 85, 0) and
\* then update_pixel_week(2024-01-08, 92, 1) leave an entry that
\* load_pixel_data returns as one record for 2024 with 53 slots, week 0 =
\* [85, 0], week 1 = [92, 1] and every other week = [None, 0].
C17_TwoUpdatesOneYearRecord ==
    (/\ call.fn = "update_pixel_week"
     /\ call.done
     /\ call.updates = <<<<0, 85, 0>>, <<7, 92, 1>>>>) =>
        /\ Len(call.ret) = 1
        /\ call.ret[1].year = 2024
        /\ Len(call.ret[1].data) = 53
        /\ call.ret[1].data[1] = <<85, 0>>
        /\ call.ret[1].data[2] = <<92, 1>>
        /\ \A k \in 3..53 : call.ret[1].data[k] = <<None, 0>>

C17_Witness ==
    /\ call.fn = "update_pixel_week"
    /\ call.done
    /\ call.file.st = "ok"
    /\ call.updates = <<<<0, 85, 0>>, <<7, 92, 1>>>>
    /\ Len(call.ret) = 1

\* C18: save_pixel_data(records) followed by load_pixel_data returns the same
\* records by ascending year, every [value, cloud_persistence] pair unchanged.
C18_SaveLoadRoundTrip ==
    (call.fn = "save_pixel_data, load_pixel_data" /\ call.done) =>
        /\ Len(call.ret) = Len(call.recs)
        /\ \A i \in 1..Len(call.recs) : \E j \in 1..Len(call.ret) :
              /\ call.ret[j].year = call.recs[i].year
              /\ Len(call.ret[j].data) = Len(call.recs[i].data)
              /\ \A k \in 1..Len(call.recs[i].data) :
                    call.ret[j].data[k] = call.recs[i].data[k]
        /\ \A i \in 1..Len(call.ret), j \in 1..Len(call.ret) :
              i < j => call.ret[i].year < call.ret[j].year

C18_Witness ==
    /\ call.fn = "save_pixel_data, load_pixel_data"
    /\ call.done
    /\ Len(call.recs) = 2
    /\ call.recs[1].year > call.recs[2].year
    /\ call.ret[1] = call.recs[2]
    /\ call.ret[1].data[53] = <<85, 1>>
    /\ call.ret[2].data[2] = <<None, 0>>

\* The cell of week index k - 1 of the record is one that the clean-up selects:
\* its value is one of the codes and its week date is before the cutoff.
CleanupSelects(rec, k) ==
    /\ rec.data[k][1] \in {ERROR_RECENT_MISSING}
    /\ Jan1(rec.year) + 7 * (k - 1) < cutoff_date

\* Some cell of the entry the pixel had when the clean-up began is selected.
HasSelectedCell(p) ==
    LET b == load_pixel_data(start_files[p])
    IN  \E i \in 1..Len(b) : \E k \in 1..Len(b[i].data) : CleanupSelects(b[i], k)

\* C19: when cleanup_old_error_codes has finished, every cell that held one of
\* the codes with a week date strictly before the cutoff holds [null, 0] (in
\* each entry whose save did not raise), every other cell of every pixel is as
\* it was, and only entries with at least one such cell were written.
C19_CleanupResetsExactlyOldCodes ==
    pc = "cleaned" =>
        \A p \in Pixels :
            LET b == load_pixel_data(start_files[p])
                a == load_pixel_data(files[p])
            IN  /\ Len(a) = Len(b)
                /\ \A i \in 1..Len(b) :
                      /\ a[i].year = b[i].year
                      /\ Len(a[i].data) = Len(b[i].data)
                      /\ \A k \in 1..Len(b[i].data) :
                            IF CleanupSelects(b[i], k)
                            THEN p \notin save_errors => a[i].data[k] = <<None, 0>>
                            ELSE a[i].data[k] = b[i].data[k]
                /\ files[p] # start_files[p] => HasSelectedCell(p)

\* C20 as stated: the value cleanup_old_error_codes returns is the number of
\* entries it modified.
C20_ReturnsModifiedCount ==
    pc = "cleaned" => cleanup_result = files_updated

\* C20: cleanup_old_error_codes counts the entries in which it reset a cell and
\* whose save succeeded, and returns nothing.
C20_CountsModifiedReturnsNone ==
    pc = "cleaned" =>
        /\ cleanup_result = None
        /\ files_updated =
              Cardinality({p \in Pixels : HasSelectedCell(p) /\ p \notin save_errors})

C20_Witness ==
    /\ pc = "cleaned"
    /\ files_updated >= 1
    /\ \E p \in Pixels : HasSelectedCell(p) /\ files[p] # start_files[p]

\* The store was usable when the last call began: a PixelCacheManager always
\* is, a SnowCoverSQLiteArchive between initialize() and close().
LastWasInitialized == call.last.initialized /\ call.last.cache_initialized

\* What load_pixel_data(k) would return on the store as it is now.
LoadNow(k) ==
    IF call.backend = "file"
    THEN File_load_pixel_data(call.rows, k)
    ELSE Archive_load_pixel_data(call.initialized, call.cache_initialized, call.rows, k)

\* C21: on a usable store load_pixel_data of a key that was never saved, or
\* whose stored entry is unreadable, returns the empty list without raising,
\* and a save of that key that completes replaces the unreadable entry: the
\* next load returns the saved records.
C21_LoadNeverRaisesOnBadEntry ==
    call.fn = "store" =>
        /\ (/\ call.last.op = "load_pixel_data"
            /\ LastWasInitialized
            /\ call.last.rows[call.last.key].st # "ok")
              => /\ call.last.out.raised = "none"
                 /\ call.last.out.kind = "list"
                 /\ call.last.out.ret = <<>>
        /\ (/\ call.last.op = "save_pixel_data"
            /\ call.last.out.raised = "none"
            /\ call.last.rows[call.last.key].st \in {"corrupt", "badshape"})
              => /\ call.rows[call.last.key].st = "ok"
                 /\ LoadNow(call.last.key).raised = "none"
                 /\ LoadNow(call.last.key).ret = SortByYear(call.last.arg)

C21_Witness ==
    /\ call.fn = "store"
    /\ call.backend = "sqlite"
    /\ call.last.op = "load_pixel_data"
    /\ LastWasInitialized
    /\ call.last.rows[call.last.key].st = "corrupt"
    /\ call.last.out.raised = "none"
    /\ call.last.out.ret = <<>>
    /\ call.rows[call.last.key].st = "absent"

ArchiveOps == {"load_pixel_data", "save_pixel_data"}
CacheOps == {"get", "set", "delete", "clear", "size"}

\* C22: the archive and its cache are uninitialized from construction to
\* initialize() and from close() on; a load_pixel_data or save_pixel_data on
\* the archive, or a get, set, delete, clear or size on its cache, issued then
\* raises a 'not initialized' error and leaves every stored entry as it was,
\* and the same call on the initialized archive does not raise.
C22_UninitializedCallsFailFast ==
    (call.fn = "store" /\ call.backend = "sqlite") =>
        /\ call.last.op = "construct" => ~call.initialized /\ ~call.cache_initialized
        /\ call.last.op = "close" => ~call.initialized /\ ~call.cache_initialized
        /\ call.last.op = "initialize" => call.initialized /\ call.cache_initialized
        /\ call.last.op \in ArchiveOps \cup CacheOps \cup {"damaged"} =>
              /\ call.initialized = call.last.initialized
              /\ call.cache_initialized = call.last.cache_initialized
        /\ (call.last.op \in ArchiveOps /\ ~call.last.initialized) =>
              /\ call.last.out.raised = "Archive not initialized"
              /\ call.rows = call.last.rows
        /\ (call.last.op \in CacheOps /\ ~call.last.cache_initialized) =>
              /\ call.last.out.raised = "Cache not initialized"
              /\ call.rows = call.last.rows
        /\ (call.last.op \in ArchiveOps \cup CacheOps /\ LastWasInitialized) =>
              call.last.out.raised = "none"

C22_Witness ==
    /\ call.fn = "store"
    /\ call.backend = "sqlite"
    /\ call.last.op = "save_pixel_data"
    /\ ~call.last.initialized
    /\ call.last.out.raised = "Archive not initialized"
    /\ call.last.arg # <<>>
    /\ call.rows[call.last.key].st = "ok"
    /\ call.rows[call.last.key].text # json_dump(call.last.arg)

AscendingYears(recs) ==
    \A i \in 1..Len(recs), j \in 1..Len(recs) : i < j => recs[i].year <= recs[j].year

\* C23: in both stores the year records of an entry are in ascending year
\* order in the stored content after every completed save and in the list
\* every load returns.
C23_YearsAscendingInStoreAndLoad ==
    call.fn = "store" =>
        /\ (call.last.op = "save_pixel_data" /\ call.last.out.raised = "none")
              => AscendingYears(json_load(call.rows[call.last.key].text))
        /\ (call.last.op = "load_pixel_data" /\ call.last.out.raised = "none")
              => AscendingYears(call.last.out.ret)

\* C24: for the same stored year records and the same window the gap
\* detection of PixelCacheManager and that of SnowCoverSQLiteArchive return the
\* same sequence of (date, week index) pairs.
C24_GapDetectionSameInBothStores ==
    (call.fn = "get_missing_weeks_for_pixel, both stores" /\ call.done) =>
        call.archive_ret = call.ret

\* C25: for every point (x, y), however far outside the global extent,
\* sinusoidal_to_tile_and_pixel returns h in [0,35], v in [0,17] and a pixel
\* row and column in [0,2999].
C25_TileAndPixelWithinGrid ==
    (call.fn = "sinusoidal_to_tile_and_pixel" /\ call.done) =>
        /\ call.ret.h_tile \in 0..35
        /\ call.ret.v_tile \in 0..17
        /\ call.ret.pixel_row \in 0..2999
        /\ call.ret.pixel_col \in 0..2999

C25_Witness ==
    /\ call.fn = "sinusoidal_to_tile_and_pixel"
    /\ call.done
    /\ call.x < 0 - GLOBAL_WIDTH \div 2 - TILE_SIZE_METERS
    /\ call.y < 0 - GLOBAL_HEIGHT \div 2 - TILE_SIZE_METERS
    /\ call.ret.h_tile = 0
    /\ call.ret.v_tile = 17
    /\ call.ret.pixel_col = 0
    /\ call.ret.pixel_row = 2999

\* floor(a / b) for b > 0, then the limits lo and hi.
FloorClamp(lo, hi, a, b) ==
    LET q == a \div b IN IF q < lo THEN lo ELSE IF q > hi THEN hi ELSE q

\* C30: for every point (x, y) the tile and pixel that
\* sinusoidal_to_tile_and_pixel computes with int() are those of the formula
\* that takes the floor of each quotient and then clamps it.
C30_TruncationEqualsFloorClamp ==
    (call.fn = "sinusoidal_to_tile_and_pixel" /\ call.done) =>
        LET h == FloorClamp(0, 35, call.x + GLOBAL_WIDTH \div 2, TILE_SIZE_METERS)
            v == FloorClamp(0, 17, GLOBAL_HEIGHT \div 2 - call.y, TILE_SIZE_METERS)
            tileLeft == h * TILE_SIZE_METERS - GLOBAL_WIDTH \div 2
            tileTop == GLOBAL_HEIGHT \div 2 - v * TILE_SIZE_METERS
        IN  /\ call.ret.h_tile = h
            /\ call.ret.v_tile = v
            /\ call.ret.pixel_col = FloorClamp(0, 2999, call.x - tileLeft, PIXEL_SIZE)
            /\ call.ret.pixel_row = FloorClamp(0, 2999, tileTop - call.y, PIXEL_SIZE)

\* A point just west and just north of the grid: every quotient lies strictly
\* between -1 and 0, where int() gives 0 and floor gives -1.
C30_Witness ==
    /\ call.fn = "sinusoidal_to_tile_and_pixel"
    /\ call.done
    /\ call.x = 0 - GLOBAL_WIDTH \div 2 - 1
    /\ call.y = GLOBAL_HEIGHT \div 2 + 1
    /\ PyInt(call.x + GLOBAL_WIDTH \div 2, TILE_SIZE_METERS) = 0
    /\ (call.x + GLOBAL_WIDTH \div 2) \div TILE_SIZE_METERS = 0 - 1
    /\ call.ret.h_tile = 0
    /\ call.ret.pixel_col = 0
    /\ call.ret.pixel_row = 0

\* C26: get_geometry_pixel_coordinates returns at least one pixel for every
\* geometry: the tested pixels whose polygon intersects it, and when there is
\* none the single pixel that contains the geometry's centroid.
C26_GeometryAlwaysHasPixel ==
    (call.fn = "get_geometry_pixel_coordinates" /\ call.done) =>
        LET g == call.geometry
            centroid_info == sinusoidal_to_tile_and_pixel((g[1] + g[3]) \div 2,
                                                          (g[2] + g[4]) \div 2)
        IN  /\ Len(call.ret) >= 1
            /\ IF IntersectingPixels(g) = {}
               THEN call.ret = <<<<centroid_info.h_tile, centroid_info.v_tile,
                                   centroid_info.pixel_row, centroid_info.pixel_col>>>>
               ELSE {call.ret[i] : i \in 1..Len(call.ret)} = IntersectingPixels(g)

C26_Witness ==
    /\ call.fn = "get_geometry_pixel_coordinates"
    /\ call.done
    /\ IntersectingPixels(call.geometry) = {}
    /\ call.geometry[3] > call.geometry[1]
    /\ call.ret = <<<<0, 17, PIXELS_PER_TILE - 1, 0>>>>

\* C27: whichever way run has returned (all tiles processed with or without
\* errors, nothing missing, no pixels found, no geojson_path, or an exception),
\* the data fetcher's cleanup() has been called.
C27_CleanupOnEveryExit ==
    (call.fn = "run" /\ call.st = "returned") => call.cleanup_calls >= 1

C27_Witness ==
    /\ call.fn = "run"
    /\ call.st = "returned"
    /\ call.exit = "ValueError"
    /\ ~call.has_path
    /\ ~call.ret
    /\ call.cleanup_calls = 1

\* The pixels of the current process_tile whose stored cell of the date was
\* empty or held the retryable code when the operation began.
NeedingPixels(date) ==
    {p \in SeqRange(pixels_arg) :
        Stored(start_files, p, date)[1] \in {None, ERROR_RECENT_MISSING}}

\* C28: in process_tile there is a fetch request for a date exactly when some
\* pixel of the tile needs the date, and the request names exactly the pixels
\* that need it, so no pixel is requested for a date it already has.
C28_RequestNamesExactlyNeedingPixels ==
    op = "process_tile" =>
        /\ \A i \in 1..Len(futures) : futures[i].date \in WindowDates
        /\ \A d \in WindowDates :
              LET requests == {i \in 1..Len(futures) : futures[i].date = d}
              IN  IF NeedingPixels(d) = {}
                  THEN requests = {}
                  ELSE /\ Cardinality(requests) = 1
                       /\ \A i \in requests :
                             SeqRange(futures[i].pixels) = NeedingPixels(d)

C28_Witness ==
    /\ op = "process_tile"
    /\ pc = "fetch"
    /\ Len(pixels_arg) = 2
    /\ \E i \in 1..Len(futures), p \in SeqRange(pixels_arg) :
          /\ futures[i].pixels = <<p>>
          /\ \E q \in SeqRange(pixels_arg) :
                Stored(start_files, q, futures[i].date)[1] = 85
    /\ \E d \in WindowDates : NeedingPixels(d) = {}

\* The last of the written updates that falls in week k of year y, <<>> when
\* there is none.
LastWritten(written, y, k) ==
    LET hits == {j \in 1..Len(written) :
                    /\ YearOf(written[j][1]) = y
                    /\ (written[j][1] - Jan1(y)) \div 7 = k}
    IN  IF hits = {} THEN <<>>
        ELSE written[CHOOSE j \in hits : \A i \in hits : i <= j]

\* C29: after any sequence of update_pixel_week calls and process_tile merges
\* on an empty store every stored year record has at most 53 weekly slots,
\* every written value sits at week index floor((date - Jan 1 of the date's
\* year) / 7), which lies in 0..52, and no other slot holds a value.
C29_WeekIndexWithinYearRecord ==
    call.fn = "update_pixel_week, process_tile" =>
        LET recs == load_pixel_data(call.file)
        IN  /\ \A i \in 1..Len(recs) : Len(recs[i].data) <= 53
            /\ \A j \in 1..Len(call.written) :
                  LET y == YearOf(call.written[j][1])
                      k == (call.written[j][1] - Jan1(y)) \div 7
                      last == LastWritten(call.written, y, k)
                  IN  /\ k \in 0..52
                      /\ Cardinality({i \in 1..Len(recs) : recs[i].year = y}) = 1
                      /\ \A i \in 1..Len(recs) :
                            recs[i].year = y =>
                                recs[i].data[k + 1] = <<last[2], last[3]>>
            /\ \A i \in 1..Len(recs) : \A k \in 1..Len(recs[i].data) :
                  recs[i].data[k] # <<None, 0>> =>
                      LastWritten(call.written, recs[i].year, k - 1) # <<>>

C29_Witness ==
    /\ call.fn = "update_pixel_week, process_tile"
    /\ call.n = 2
    /\ call.ops[1].kind = "update_pixel_week"
    /\ call.ops[2].kind = "process_tile"
    /\ \E j \in 1..Len(call.written) : call.written[j][1] = 365
    /\ \E j \in 1..Len(call.written) : call.written[j][1] = 0 - 1
    /\ LET recs == load_pixel_data(call.file)
       IN  /\ Len(recs) = 2
           /\ recs[1].year = 2023
           /\ recs[1].data[53][1] # None
           /\ recs[2].data[53][1] # None
           /\ Len(recs[2].data) = 53


\* (tile, pixel_row, pixel_col) of an entry of get_geometry_pixel_coordinates.
PixelIdentity(pixel) == <<TileName(pixel[1], pixel[2]), pixel[3], pixel[4]>>

NoDuplicates(seq) ==
    \A i \in 1..Len(seq) : \A j \in 1..Len(seq) : seq[i] = seq[j] => i = j

\* C31: the list get_geometry_pixel_coordinates returns has no two entries
\* with the same (tile, pixel_row, pixel_col), and
\* extract_unique_pixels_from_geojson returns every pixel found in any feature
\* or part exactly once.
C31_NoPixelTwice ==
    /\ (call.fn = "get_geometry_pixel_coordinates" /\ call.done) =>
           NoDuplicates([i \in 1..Len(call.ret) |-> PixelIdentity(call.ret[i])])
    /\ (call.fn = "extract_unique_pixels_from_geojson" /\ call.done) =>
           /\ NoDuplicates(call.ret)
           /\ {call.ret[i] : i \in 1..Len(call.ret)} =
                  UNION {{PixelIdentity(FeaturePixelCoords(call.features[f])[i]) :
                             i \in 1..Len(FeaturePixelCoords(call.features[f]))} :
                         f \in 1..Len(call.features)}

\* Two features, the second a multi-part geometry whose first part lies on
\* pixels of the first feature and whose second part crosses into tile h01.
C31_Witness ==
    /\ call.fn = "extract_unique_pixels_from_geojson"
    /\ call.done
    /\ Len(call.features) = 2
    /\ call.features[1].geom_type = "Polygon"
    /\ call.features[2].geom_type = "MultiLineString"
    /\ Len(FeaturePixelCoords(call.features[1]))
           + Len(FeaturePixelCoords(call.features[2])) > Len(call.ret)
    /\ \E i \in 1..Len(call.ret) : call.ret[i][1] = TileName(1, 8)
    /\ \E i \in 1..Len(call.ret) : call.ret[i][1] = TileName(0, 8)
    /\ \E i \in 1..Len(call.ret) : call.ret[i][1] = TileName(18, 8)

\* C32: in a cache with ttl_ms = 0 a get of a key returns the value of the
\* last set of that key that no set, delete or clear of the key followed,
\* whatever time has passed since, and leaves the rows as they were; cleanup
\* returns 0 and removes nothing.
C32_ZeroTtlNeverExpires ==
    (call.fn = "cache" /\ call.ttl_ms = ARCHIVE_TTL_MS) =>
        /\ (/\ call.last.op = "get"
            /\ call.last.initialized
            /\ call.last.stored[call.last.key] # NotStored) =>
               /\ call.last.out = Returned("value", call.last.stored[call.last.key][1],
                                           call.last.rows)
               /\ call.rows = call.last.rows
        /\ call.last.op = "cleanup" =>
               /\ call.last.out = Returned("int", 0, call.last.rows)
               /\ call.rows = call.last.rows

\* A get at the end of the clock of a value set at its start, a cleanup in
\* between: in a cache with ttl_ms = TtlMs the row would have expired.
C32_Witness ==
    /\ call.fn = "cache"
    /\ call.ttl_ms = ARCHIVE_TTL_MS
    /\ call.last.op = "get"
    /\ call.last.time_ms = MaxClockMs
    /\ call.last.rows[call.last.key].st = "ok"
    /\ call.last.rows[call.last.key].timestamp = 0
    /\ call.last.time_ms - call.last.rows[call.last.key].timestamp > TtlMs
    /\ call.last.out.kind = "value"
    /\ Len(call.last.out.ret) = 2

\* C33: for the same per-date fetch results, the files process_tile leaves
\* are the same in whichever order the tasks completed: they are the files
\* left when the results are collected by ascending date.
C33_CompletionOrderIrrelevant ==
    (call.fn = "process_tile, completion order" /\ call.done) =>
        call.ret = MergedFiles(call.store, call.results)

\* The tasks completed latest date first, so the record of the epoch year was
\* appended before the one of the year before; the file has them by year.
C33_Witness ==
    /\ call.fn = "process_tile, completion order"
    /\ call.done
    /\ call.order = <<3, 2, 1>>
    /\ call.store[<<1500, 1000>>] = AbsentFile
    /\ LET recs == json_load(call.ret[<<1500, 1001>>].text)
       IN  /\ Len(recs) = 2
           /\ recs[1].year = EpochYear - 1
           /\ recs[1].data[53][1] = 40
           /\ recs[2].year = EpochYear
           /\ recs[2].data[2][1] = 85
    /\ Len(json_load(call.ret[<<1500, 1000>>].text)) = 2

\* The years of the records of an entry, and the week list of a year (empty
\* when the entry has no record of the year).
EntryYears(file) ==
    {load_pixel_data(file)[i].year : i \in 1..Len(load_pixel_data(file))}

EntryWeeks(file, y) ==
    LET recs == load_pixel_data(file)
        idx == {i \in 1..Len(recs) : recs[i].year = y}
    IN  IF idx = {} THEN <<>> ELSE recs[CHOOSE i \in idx : \A j \in idx : i <= j].data

\* C34: update_pixel_week(key, date, value, cp) on a readable entry sets the
\* cell of the date's year and week index to [value, cp]; every other cell of
\* the pixel keeps its value, a week list grows only by [None, 0] cells up to
\* the written index, a record is added only for the date's year, and the
\* entries of the other pixels are unchanged.
C34_UpdateChangesOneCell ==
    (call.fn = "update_pixel_week, store" /\ call.done) =>
        LET old == call.store[call.key]
            new == call.ret[call.key]
            year == YearOf(call.date)
            week_index == (call.date - Jan1(year)) \div 7
        IN  /\ \A p \in Pixels \ {call.key} : call.ret[p] = call.store[p]
            /\ new.st = "ok"
            /\ EntryYears(new) = EntryYears(old) \cup {year}
            /\ Len(load_pixel_data(new)) = Cardinality(EntryYears(new))
            /\ EntryWeeks(new, year)[week_index + 1] =
                   <<call.value, call.cloud_persistence>>
            /\ \A y \in EntryYears(new) :
                  LET was == EntryWeeks(old, y)
                      is == EntryWeeks(new, y)
                  IN  /\ Len(is) >= Len(was)
                      /\ y # year => is = was
                      /\ \A k \in 1..Len(is) :
                            (y # year \/ k # week_index + 1) =>
                                is[k] = IF k <= Len(was) THEN was[k] ELSE EmptyCell
                      /\ (y = year /\ year \in EntryYears(old)) =>
                            Len(is) = Max(Len(was), week_index + 1)

\* The week list of two slots is written at week index 2: it grows by one
\* cell and keeps its two values, and the other pixel has an entry.
C34_Witness ==
    /\ call.fn = "update_pixel_week, store"
    /\ call.done
    /\ call.date = 14
    /\ EntryWeeks(call.store[call.key], EpochYear) = <<GapCell(85), GapCell(40)>>
    /\ EntryWeeks(call.ret[call.key], EpochYear) =
           <<GapCell(85), GapCell(40), <<92, 1>>>>
    /\ \E p \in Pixels \ {call.key} : Len(load_pixel_data(call.ret[p])) = 2

\* C35: starting from an empty store, whatever update_pixel_week calls,
\* process_tile merges and cleanup_old_error_codes calls have run or are
\* running, no readable pixel file holds two records of the same year.
C35_OneRecordPerYear ==
    \A p \in Pixels :
        files[p].st = "ok" =>
            LET recs == json_load(files[p].text)
            IN  \A i \in 1..Len(recs) : \A j \in 1..Len(recs) :
                    recs[i].year = recs[j].year => i = j

\* cleanup_old_error_codes has reset week 0 of a file and saved it, week 1
\* holding a value an earlier update or merge wrote.
C35_Witness ==
    /\ pc = "cleaned"
    /\ files_updated = 1
    /\ \E p \in Pixels :
          /\ files[p].st = "ok"
          /\ start_files[p].st = "ok"
          /\ Len(json_load(files[p].text)) = 1
          /\ json_load(start_files[p].text)[1].data[1][1] = ERROR_RECENT_MISSING
          /\ json_load(files[p].text)[1].data[1] = EmptyCell
          /\ json_load(files[p].text)[1].data[2][1] = 85

NothingMissing ==
    \A i \in 1..Len(pixels_arg) :
        get_missing_weeks_for_pixel(start_files[pixels_arg[i]], start_date, end_date) = <<>>

\* C37: a process_tile that finds no missing week for any of its pixels
\* submits no fetch task, loads and saves no file in a merge, leaves every
\* file as it was and returns processed_weeks = 0, updated_pixels = 0 and
\* errors = 0.
C37_NothingMissingNothingDone ==
    (op = "process_tile" /\ NothingMissing) =>
        /\ pc = "return"
        /\ futures = <<>>
        /\ all_results = <<>>
        /\ \A p \in Pixels : loads[p] = 0 /\ saves[p] = 0
        /\ files = start_files
        /\ stats = ZeroStats

\* Both pixels have every week of the window stored, one of them a 301, and
\* process_tile was called for both.
C37_Witness ==
    /\ op = "process_tile"
    /\ NothingMissing
    /\ pc = "return"
    /\ Len(pixels_arg) = 2
    /\ \A p \in Pixels : \A date \in WindowDates : Stored(files, p, date)[1] # None
    /\ \E p \in Pixels : Stored(files, p, 0)[1] = ERROR_OLD_MISSING

\* The cell updates of the current run whose pixel's save did not raise.
PersistedUpdates ==
    SumSeq([i \in 1..Len(pixel_updates) |->
               IF pixel_updates[i][1] \in save_errors THEN 0
               ELSE Len(pixel_updates[i][2])])

\* C38: when process_tile returns, updated_pixels is the number of
\* (pixel, date) updates of the pixels whose save succeeded.
C38_UpdatedPixelsCountsPersisted ==
    (op = "process_tile" /\ pc = "return") =>
        stats.updated_pixels = PersistedUpdates

\* C39: in every run of a processor, the first or a later one, a date whose
\* tile file is available at the source is not recorded as 301 or 400 for any
\* pixel it was fetched for.
C39_AvailableFileFetchedInEveryRun ==
    call.fn = "run" =>
        \A u \in call.fetched :
            u[2] \in call.at_source =>
                u[3] \notin {ERROR_OLD_MISSING, ERROR_RECENT_MISSING}
====
